---- MODULE Spec2Model ----
(***************************************************************************)
(* Model of the schema builder of llm_codebridge/core.py (type2schema,     *)
(* get_parameter_json_schema, get_parameters, generate_function_schema),   *)
(* of the schema-shape linter of oai_tool/validation.py (validate_schema), *)
(* of the response validators (validate_llm_response of core.py,           *)
(* Tool.validate_response of llm_codebridge/decorators.py) and of the Tool *)
(* decorator of llm_codebridge/decorators.py.                              *)
(*                                                                         *)
(* A Python dict is an insertion-ordered mapping: it is modelled as a      *)
(* sequence of <<key, value>> pairs with unique keys.  A Python list is a  *)
(* sequence.  Type annotations are modelled as tagged records (shape),     *)
(* classes by name with their properties looked up in a class table.       *)
(***************************************************************************)
EXTENDS Integers, Sequences, FiniteSets, TLC

VARIABLES op, input, schema, response, verdict, frames,
          tool, wrappers, called

vars == <<op, input, schema, response, verdict, frames,
          tool, wrappers, called>>

\* what the entry points that are pure functions leave alone: the call
\* stack of a running type2schema, a Tool instance, the wrappers it
\* returned and the call made to one of them
machines == <<frames, tool, wrappers, called>>

(***************************************************************************)
(* Bounds of the model.                                                    *)
(***************************************************************************)
\* how many times a wrapper (List, Optional, Union, Annotated) is applied
\* around the basic annotations when the inputs are enumerated
MaxDepth == 2

\* the interpreter's recursion limit (sys.getrecursionlimit(), 1000 unless
\* the program changes it): the number of frames the call stack may hold.
\* It exceeds the nesting of every annotation that does not refer to itself
RecursionLimit == 8

\* how many functions one Tool instance decorates
MaxDecorations == 2

(***************************************************************************)
(* Ordered dicts.                                                          *)
(***************************************************************************)
EmptyDict == << >>

Keys(d) == {d[i][1] : i \in DOMAIN d}

Has(d, k) == \E i \in DOMAIN d : d[i][1] = k

Get(d, k) == d[CHOOSE i \in DOMAIN d : d[i][1] = k][2]

\* d[k] = v : an existing key keeps its position, a new key is appended
Put(d, k, v) ==
    IF Has(d, k)
    THEN [i \in DOMAIN d |-> IF d[i][1] = k THEN <<k, v>> ELSE d[i]]
    ELSE Append(d, <<k, v>>)

\* d.pop(k, None)
Pop(d, k) == SelectSeq(d, LAMBDA kv : kv[1] # k)

(***************************************************************************)
(* Outcome of a call: a returned value or a raised exception.              *)
(***************************************************************************)
Returned(v) == [raised |-> FALSE, exc |-> "", value |-> v]

Raised(e) == [raised |-> TRUE, exc |-> e, value |-> << >>]

NotCalled == [raised |-> FALSE, exc |-> "not called", value |-> << >>]

(***************************************************************************)
(* Python values that end up inside a schema (enum members, literal        *)
(* arguments, parameter defaults) or inside a candidate response.          *)
(***************************************************************************)
StrVal(s) == [t |-> "str", s |-> s, n |-> 0]

IntVal(n) == [t |-> "int", s |-> "", n |-> n]

NoneVal == [t |-> "NoneType", s |-> "", n |-> 0]

\* True is 1 and False is 0
BoolVal(b) == [t |-> "bool", s |-> "", n |-> IF b THEN 1 ELSE 0]

\* a float, counted in halves: FloatVal(60) is 30.0, FloatVal(61) is 30.5
FloatVal(h) == [t |-> "float", s |-> "", n |-> h]

ListVal(xs) == [t |-> "list", items |-> xs]

\* a dict value: kvs is a sequence of <<key, value>> pairs
DictVal(kvs) == [t |-> "dict", items |-> kvs]

\* bool(v), as `x if x else y` and `x or y` test it
IsTruthy(v) ==
    CASE v.t = "NoneType" -> FALSE
      [] v.t = "str" -> v.s # ""
      [] v.t \in {"int", "bool", "float"} -> v.n # 0
      [] OTHER -> v.items # << >>

(***************************************************************************)
(* Annotation metadata.  Field(description=..., gt=..., ge=..., lt=...,    *)
(* le=..., min_length=...) is a FieldInfo whose metadata list holds one    *)
(* constraint object per keyword; each constraint object has exactly one   *)
(* attribute, named after its keyword.  An absent description is None,     *)
(* written "" (both are falsy).                                            *)
(***************************************************************************)
Constraint(a, v) == [attr |-> a, value |-> v]

FieldInfo(d, m) == [kind |-> "FieldInfo", description |-> d, metadata |-> m]

\* a metadata item of Annotated that is not a FieldInfo (a plain string)
OtherMeta == [kind |-> "str", description |-> "", metadata |-> << >>]

\* Python None where a FieldInfo is expected
NoFieldInfo == [kind |-> "None", description |-> "", metadata |-> << >>]

(***************************************************************************)
(* Type annotations.                                                       *)
(***************************************************************************)
Cls(c) == [shape |-> "class", cls |-> c]

Literal(vals) == [shape |-> "Literal", args |-> vals]

\* typing.List[x], typing.Tuple[x, y], typing.Set[x]: origin is the class
Generic(o, as) == [shape |-> "generic", origin |-> o, args |-> as]

Union(as) == [shape |-> "Union", args |-> as]

Annotated(b, m) == [shape |-> "Annotated", base |-> b, meta |-> m]

\* inspect.Signature.empty
SignatureEmpty == [shape |-> "empty"]

NoneType == Cls("NoneType")

\* typing.Optional[x] is Union[x, None]; typing flattens a union argument
\* and drops a duplicate None
Optional(x) ==
    IF x = NoneType THEN x
    ELSE IF x.shape = "Union"
         THEN IF \E i \in DOMAIN x.args : x.args[i] = NoneType
              THEN x
              ELSE Union(Append(x.args, NoneType))
         ELSE Union(<<x, NoneType>>)

get_origin(a) ==
    CASE a.shape = "Literal" -> "Literal"
      [] a.shape = "generic" -> a.origin
      [] a.shape = "Union" -> "Union"
      [] a.shape = "Annotated" -> "Annotated"
      [] OTHER -> "None"

(***************************************************************************)
(* The class table: what issubclass, __doc__, iteration over an Enum and   *)
(* model_fields answer for each class the inputs mention.                  *)
(***************************************************************************)
FieldDecl(n, a) == [name |-> n, annotation |-> a]

Member(n, v) == [name |-> n, value |-> v]

ClassDef(b, d, ms, fs) == [bases |-> b, doc |-> d, members |-> ms, fields |-> fs]

ClassNames ==
    {"bool", "str", "int", "float",
     "object", "tuple", "set", "dict", "NoneType",
     "Color", "Priority", "Mode",
     "Address", "User", "Team", "Blob"}

ClassTable(c) ==
    CASE c = "bool" -> ClassDef({"bool", "int", "object"}, "", << >>, << >>)
      [] c = "str" -> ClassDef({"str", "object"}, "", << >>, << >>)
      [] c = "int" -> ClassDef({"int", "object"}, "", << >>, << >>)
      [] c = "float" -> ClassDef({"float", "object"}, "", << >>, << >>)
      [] c = "object" -> ClassDef({"object"}, "", << >>, << >>)
      [] c = "tuple" -> ClassDef({"tuple", "object"}, "", << >>, << >>)
      [] c = "set" -> ClassDef({"set", "object"}, "", << >>, << >>)
      [] c = "dict" -> ClassDef({"dict", "object"}, "", << >>, << >>)
      [] c = "NoneType" -> ClassDef({"NoneType", "object"}, "", << >>, << >>)
      \* class Color(Enum): RED = "red"; GREEN = "green"; BLUE = "blue"
      [] c = "Color" ->
            ClassDef({"Color", "Enum", "object"}, "",
                     <<Member("RED", StrVal("red")),
                       Member("GREEN", StrVal("green")),
                       Member("BLUE", StrVal("blue"))>>, << >>)
      \* class Priority(Enum): LOW = 1; HIGH = 2
      [] c = "Priority" ->
            ClassDef({"Priority", "Enum", "object"}, "",
                     <<Member("LOW", IntVal(1)), Member("HIGH", IntVal(2))>>,
                     << >>)
      \* class Mode(str, Enum): FAST = "fast"; SAFE = "safe"
      [] c = "Mode" ->
            ClassDef({"Mode", "str", "Enum", "object"}, "",
                     <<Member("FAST", StrVal("fast")),
                       Member("SAFE", StrVal("safe"))>>, << >>)
      \* class Address(BaseModel):
      \*     street: Annotated[str, Field(description="The street address")]
      \*     zip_code: str
      [] c = "Address" ->
            ClassDef({"Address", "BaseModel", "object"}, "", << >>,
                     <<FieldDecl("street",
                           Annotated(Cls("str"),
                               <<FieldInfo("The street address", << >>)>>)),
                       FieldDecl("zip_code", Cls("str"))>>)
      \* class User(BaseModel):
      \*     """A user"""
      \*     name: Annotated[str, Field(description="The name of the user")]
      \*     age: Annotated[int, Field(ge=0, lt=150)]
      \*     address: Address
      \*     friends: Annotated[List[Address], Field(description="Friends")]
      [] c = "User" ->
            ClassDef({"User", "BaseModel", "object"}, "A user", << >>,
                     <<FieldDecl("name",
                           Annotated(Cls("str"),
                               <<FieldInfo("The name of the user", << >>)>>)),
                       FieldDecl("age",
                           Annotated(Cls("int"),
                               <<FieldInfo("", <<Constraint("ge", 0),
                                                 Constraint("lt", 150)>>)>>)),
                       FieldDecl("address", Cls("Address")),
                       FieldDecl("friends",
                           Annotated(Generic("list", <<Cls("Address")>>),
                               <<FieldInfo("Friends", << >>)>>))>>)
      \* class Team(BaseModel):
      \*     lead: Optional[User]
      \*     members: List[User]
      \*     tag: Union[int, str]
      [] c = "Team" ->
            ClassDef({"Team", "BaseModel", "object"}, "", << >>,
                     <<FieldDecl("lead", Optional(Cls("User"))),
                       FieldDecl("members", Generic("list", <<Cls("User")>>)),
                       FieldDecl("tag", Union(<<Cls("int"), Cls("str")>>))>>)
      \* class Blob(BaseModel):
      \*     label: str
      \*     payload: dict
      [] c = "Blob" ->
            ClassDef({"Blob", "BaseModel", "object"}, "", << >>,
                     <<FieldDecl("label", Cls("str")),
                       FieldDecl("payload", Cls("dict"))>>)
      \* class Linked(BaseModel):
      \*     next: "Linked"
      [] c = "Linked" ->
            ClassDef({"Linked", "BaseModel", "object"}, "", << >>,
                     <<FieldDecl("next", Cls("Linked"))>>)
      \* class Node(BaseModel):
      \*     label: str
      \*     children: List["Node"]
      [] c = "Node" ->
            ClassDef({"Node", "BaseModel", "object"}, "", << >>,
                     <<FieldDecl("label", Cls("str")),
                       FieldDecl("children",
                           Generic("list", <<Cls("Node")>>))>>)
      \* class Tree(BaseModel):
      \*     value: int
      \*     left: Optional["Tree"]
      [] c = "Tree" ->
            ClassDef({"Tree", "BaseModel", "object"}, "", << >>,
                     <<FieldDecl("value", Cls("int")),
                       FieldDecl("left", Optional(Cls("Tree")))>>)

issubclass(c, b) == b \in ClassTable(c).bases

(***************************************************************************)
(* core.py: annotation helpers.                                            *)
(***************************************************************************)
extract_annotated_type(annotation) ==
    IF get_origin(annotation) = "Annotated"
    THEN annotation.base
    ELSE annotation

\* the first FieldInfo among the metadata of an Annotated, else None
extract_annotation_metadata(annotation) ==
    IF get_origin(annotation) = "Annotated"
    THEN LET metadata == annotation.meta
             hits == {i \in DOMAIN metadata : metadata[i].kind = "FieldInfo"}
         IN IF hits = {}
            THEN NoFieldInfo
            ELSE metadata[CHOOSE i \in hits : \A j \in hits : i <= j]
    ELSE NoFieldInfo

\* base_type.model_fields.items(): pydantic keeps, per declared field, the
\* annotation with its outer Annotated wrapper removed (field.annotation)
\* and the description of the attached Field (field.description)
model_fields(c) ==
    LET decls == ClassTable(c).fields
    IN [i \in DOMAIN decls |->
           [name |-> decls[i].name,
            annotation |-> extract_annotated_type(decls[i].annotation),
            description |->
                extract_annotation_metadata(decls[i].annotation).description]]

(***************************************************************************)
(* core.py: type2schema.                                                   *)
(***************************************************************************)
RECURSIVE type2schema(_)

\* {"type": "string", "enum": list(get_args(base_type))}
LiteralSchema(base_type) ==
    << <<"type", "string">>, <<"enum", base_type.args>> >>

\* PrimitiveSchema with the integer test placed before the boolean test
PrimitiveSchema_IntFirst(c) ==
    IF issubclass(c, "int") THEN << <<"type", "integer">> >>
    ELSE IF issubclass(c, "bool") THEN << <<"type", "boolean">> >>
    ELSE IF issubclass(c, "str") THEN << <<"type", "string">> >>
    ELSE IF issubclass(c, "float") THEN << <<"type", "number">> >>
    ELSE EmptyDict

\* the four primitive branches of the issubclass chain, in source order;
\* EmptyDict when none of them applies
PrimitiveSchema(c) ==
    IF issubclass(c, "bool") THEN << <<"type", "boolean">> >>
    ELSE IF issubclass(c, "str") THEN << <<"type", "string">> >>
    ELSE IF issubclass(c, "int") /\ ~issubclass(c, "bool")
         THEN << <<"type", "integer">> >>
    ELSE IF issubclass(c, "float") THEN << <<"type", "number">> >>
    ELSE EmptyDict

IsPrimitiveClass(c) ==
    \/ issubclass(c, "bool")
    \/ issubclass(c, "str")
    \/ issubclass(c, "int")
    \/ issubclass(c, "float")

\* {"type": "string", "enum": [e.value for e in base_type]}
EnumSchema(c) ==
    LET ms == ClassTable(c).members
    IN << <<"type", "string">>,
          <<"enum", [i \in DOMAIN ms |-> ms[i].value]>> >>

\* base_type.__doc__ or getattr(base_type.model_config, "title", ""):
\* model_config is a dict, so the getattr always yields its default
model_description(c) == ClassTable(c).doc

\* {**type2schema(field.annotation), "description": field.description or prop_name}
PropertyNode(field, built) ==
    Put(built, "description",
        IF field.description # "" THEN field.description ELSE field.name)

\* ModelSchema with the properties emitted in reverse declaration order
ModelSchema_Reversed(c, built) ==
    LET fs == model_fields(c)
    IN IF \E i \in DOMAIN fs : built[i].raised
       THEN built[CHOOSE i \in DOMAIN fs :
                      /\ built[i].raised
                      /\ \A j \in DOMAIN fs : built[j].raised => i <= j]
       ELSE Returned(
              << <<"type", "object">>,
                 <<"properties",
                   [i \in DOMAIN fs |->
                       <<fs[Len(fs) + 1 - i].name,
                         PropertyNode(fs[Len(fs) + 1 - i],
                                      built[Len(fs) + 1 - i].value)>>]>>,
                 <<"description", model_description(c)>> >>)

\* the BaseModel branch; built[i] is type2schema(field.annotation) of the
\* i-th field
ModelSchema(c, built) ==
    LET fs == model_fields(c)
    IN IF \E i \in DOMAIN fs : built[i].raised
       THEN built[CHOOSE i \in DOMAIN fs :
                      /\ built[i].raised
                      /\ \A j \in DOMAIN fs : built[j].raised => i <= j]
       ELSE Returned(
              << <<"type", "object">>,
                 <<"properties",
                   [i \in DOMAIN fs |->
                       <<fs[i].name, PropertyNode(fs[i], built[i].value)>>]>>,
                 <<"description", model_description(c)>> >>)

\* {"type": "array", "items": type2schema(get_args(base_type)[0])};
\* items is the outcome of that recursive call
ListSchema(items) ==
    IF items.raised THEN items
    ELSE Returned(<< <<"type", "array">>, <<"items", items.value>> >>)

\* OneOfSchema with the variants emitted in reverse order
OneOfSchema_Reversed(built) ==
    IF \E i \in DOMAIN built : built[i].raised
    THEN built[CHOOSE i \in DOMAIN built :
                   /\ built[i].raised
                   /\ \A j \in DOMAIN built : built[j].raised => i <= j]
    ELSE Returned(<< <<"oneOf",
                      [i \in DOMAIN built |->
                          built[Len(built) + 1 - i].value]>> >>)

\* {"oneOf": [type2schema(arg) for arg in args]}; built[i] is the outcome
\* of type2schema(args[i])
OneOfSchema(built) ==
    IF \E i \in DOMAIN built : built[i].raised
    THEN built[CHOOSE i \in DOMAIN built :
                   /\ built[i].raised
                   /\ \A j \in DOMAIN built : built[j].raised => i <= j]
    ELSE Returned(<< <<"oneOf", [i \in DOMAIN built |-> built[i].value]>> >>)

\* the argument of a two-argument union with None that is not None
non_none_type(args) == IF args[2] = NoneType THEN args[1] ELSE args[2]

\* schema = type2schema(non_none_type); schema["nullable"] = True
NullableSchema(inner) ==
    IF inner.raised THEN inner
    ELSE Returned(Put(inner.value, "nullable", TRUE))

\* len(args) == 2 and type(None) in args
IsOptional(args) ==
    Len(args) = 2 /\ (\E i \in DOMAIN args : args[i] = NoneType)

BoundKey(attr) ==
    CASE attr = "gt" -> "exclusiveMinimum"
      [] attr = "ge" -> "minimum"
      [] attr = "lt" -> "exclusiveMaximum"
      [] attr = "le" -> "maximum"

BoundAttrs == {"gt", "ge", "lt", "le"}

\* the loop over field_info.metadata: a constraint object has one attribute,
\* so at most one of the four hasattr tests succeeds per object
RECURSIVE MergeBounds(_, _)
MergeBounds(node, metadata) ==
    IF metadata = << >> THEN node
    ELSE LET meta == Head(metadata)
         IN MergeBounds(IF meta.attr \in BoundAttrs
                        THEN Put(node, BoundKey(meta.attr), meta.value)
                        ELSE node,
                        Tail(metadata))

\* if field_info and field_info.metadata: merge the bounds into the node
\* the shape dispatch produced (shaped is the outcome of that dispatch)
WithBounds(shaped, field_info) ==
    IF shaped.raised THEN shaped
    ELSE IF field_info.kind = "FieldInfo" /\ field_info.metadata # << >>
         THEN Returned(MergeBounds(shaped.value, field_info.metadata))
         ELSE shaped

\* the shape dispatch of type2schema on base_type
ShapeSchema(base_type) ==
    IF get_origin(base_type) = "Literal"
    THEN Returned(LiteralSchema(base_type))
    ELSE IF base_type.shape = "class"
    THEN IF IsPrimitiveClass(base_type.cls)
         THEN Returned(PrimitiveSchema(base_type.cls))
         ELSE IF issubclass(base_type.cls, "BaseModel")
         THEN ModelSchema(base_type.cls,
                  [i \in DOMAIN model_fields(base_type.cls) |->
                      type2schema(model_fields(base_type.cls)[i].annotation)])
         ELSE IF issubclass(base_type.cls, "Enum")
         THEN Returned(EnumSchema(base_type.cls))
         ELSE Returned(EmptyDict)
    ELSE IF get_origin(base_type) = "list"
    THEN ListSchema(type2schema(base_type.args[1]))
    ELSE IF get_origin(base_type) = "Union"
    THEN IF IsOptional(base_type.args)
         THEN NullableSchema(type2schema(non_none_type(base_type.args)))
         ELSE OneOfSchema([i \in DOMAIN base_type.args |->
                              type2schema(base_type.args[i])])
    ELSE Raised("TypeError")

type2schema(annotation) ==
    WithBounds(ShapeSchema(extract_annotated_type(annotation)),
               extract_annotation_metadata(annotation))

(***************************************************************************)
(* core.py: type2schema as the interpreter runs it.  Every activation of   *)
(* type2schema is a frame of the call stack: the annotation it was called  *)
(* with and the outcomes of the recursive calls it has made so far.        *)
(***************************************************************************)
\* the annotations an activation on base_type calls type2schema with, in
\* the order of the calls
Children(base_type) ==
    IF get_origin(base_type) = "Literal" THEN << >>
    ELSE IF base_type.shape = "class"
    THEN IF ~IsPrimitiveClass(base_type.cls)
            /\ issubclass(base_type.cls, "BaseModel")
         THEN [i \in DOMAIN model_fields(base_type.cls) |->
                  model_fields(base_type.cls)[i].annotation]
         ELSE << >>
    ELSE IF get_origin(base_type) = "list" THEN <<base_type.args[1]>>
    ELSE IF get_origin(base_type) = "Union"
    THEN IF IsOptional(base_type.args)
         THEN <<non_none_type(base_type.args)>>
         ELSE base_type.args
    ELSE << >>

\* the shape dispatch once the recursive calls have returned built
Combine(base_type, built) ==
    IF get_origin(base_type) = "Literal"
    THEN Returned(LiteralSchema(base_type))
    ELSE IF base_type.shape = "class"
    THEN IF IsPrimitiveClass(base_type.cls)
         THEN Returned(PrimitiveSchema(base_type.cls))
         ELSE IF issubclass(base_type.cls, "BaseModel")
         THEN ModelSchema(base_type.cls, built)
         ELSE IF issubclass(base_type.cls, "Enum")
         THEN Returned(EnumSchema(base_type.cls))
         ELSE Returned(EmptyDict)
    ELSE IF get_origin(base_type) = "list"
    THEN ListSchema(built[1])
    ELSE IF get_origin(base_type) = "Union"
    THEN IF IsOptional(base_type.args)
         THEN NullableSchema(built[1])
         ELSE OneOfSchema(built)
    ELSE Raised("TypeError")

Frame(annotation) == [annotation |-> annotation, built |-> << >>]

\* the activation has a recursive call left to make
Pending(frame) ==
    Len(frame.built) < Len(Children(extract_annotated_type(frame.annotation)))

\* what the activation returns or raises once its calls have returned
FrameResult(frame) ==
    WithBounds(Combine(extract_annotated_type(frame.annotation), frame.built),
               extract_annotation_metadata(frame.annotation))

(***************************************************************************)
(* core.py: parameters and the function schema.                            *)
(*                                                                         *)
(* A callable is what inspect.signature, __name__, __doc__ and             *)
(* inspect.iscoroutinefunction report of it: an ordered parameter list,    *)
(* each parameter with its annotation (or Signature.empty) and its default *)
(* (or Signature.empty), a declared name, a docstring ("" for None) and    *)
(* whether it is a coroutine function.                                     *)
(***************************************************************************)
NoDefault == [has |-> FALSE, value |-> NoneVal]

Default(v) == [has |-> TRUE, value |-> v]

Param(n, a, d) == [name |-> n, annotation |-> a, default |-> d]

Callable(n, d, a, ps) == [name |-> n, doc |-> d, is_async |-> a, params |-> ps]

\* a call generate_function_schema(f, name=..., description=..., is_method=...);
\* name and description are None or a string
Call(f, n, d, m) == [f |-> f, name |-> n, description |-> d, is_method |-> m]

get_required_params(params) ==
    LET req == SelectSeq(params, LAMBDA p : ~p.default.has)
    IN [i \in DOMAIN req |-> req[i].name]

get_default_values(params) ==
    LET def == SelectSeq(params, LAMBDA p : p.default.has)
    IN [i \in DOMAIN def |-> <<def[i].name, def[i].default.value>>]

get_param_annotations(params) ==
    LET ann == SelectSeq(params, LAMBDA p : p.annotation # SignatureEmpty)
    IN [i \in DOMAIN ann |-> <<ann[i].name, ann[i].annotation>>]

\* ParameterNode without the fall-back to the parameter name
ParameterNode_NoFallback(k, built, metadata, default_values) ==
    IF built.raised THEN built
    ELSE Returned(
           Put(IF Has(default_values, k)
               THEN Put(built.value, "default", Get(default_values, k))
               ELSE built.value,
               "description", metadata.description))

\* get_parameter_json_schema after its call of type2schema (built is the
\* outcome of that call, metadata is extract_annotation_metadata(v))
ParameterNode(k, built, metadata, default_values) ==
    IF built.raised THEN built
    ELSE Returned(
           Put(IF Has(default_values, k)
               THEN Put(built.value, "default", Get(default_values, k))
               ELSE built.value,
               "description",
               IF metadata.kind = "FieldInfo" /\ metadata.description # ""
               THEN metadata.description
               ELSE k))

get_parameter_json_schema(k, v, default_values) ==
    ParameterNode(k, type2schema(v), extract_annotation_metadata(v),
                  default_values)

\* the dict get_parameters returns; built[i] is the outcome of
\* get_parameter_json_schema for the i-th annotated parameter
ParametersNode(required, param_annotations, built) ==
    IF \E i \in DOMAIN built : built[i].raised
    THEN built[CHOOSE i \in DOMAIN built :
                   /\ built[i].raised
                   /\ \A j \in DOMAIN built : built[j].raised => i <= j]
    ELSE Returned(
           << <<"type", "object">>,
              <<"properties",
                [i \in DOMAIN built |->
                    <<param_annotations[i][1], built[i].value>>]>>,
              <<"required", required>> >>)

get_parameters(required, param_annotations, default_values) ==
    ParametersNode(required, param_annotations,
        [i \in DOMAIN param_annotations |->
            get_parameter_json_schema(param_annotations[i][1],
                                      param_annotations[i][2],
                                      default_values)])

\* without the receiver names when is_method
DropReceiver(d, is_method) ==
    IF is_method THEN Pop(Pop(d, "self"), "cls") ELSE d

RequiredOf(params, is_method) ==
    IF is_method
    THEN SelectSeq(get_required_params(params),
                   LAMBDA r : r \notin {"self", "cls"})
    ELSE get_required_params(params)

\* FunctionSchema with the async key always present (false when the callable
\* is synchronous)
FunctionSchema_AsyncAlways(call, parameters) ==
    IF parameters.raised THEN parameters
    ELSE Returned(
           << <<"type", "function">>,
              <<"function",
                << <<"name",
                     IF IsTruthy(call.name) THEN call.name.s ELSE call.f.name>>,
                   <<"description",
                     IF IsTruthy(call.description)
                     THEN call.description.s ELSE call.f.doc>>,
                   <<"parameters", parameters.value>>,
                   <<"async", call.f.is_async>> >> >> >>)

\* the dict generate_function_schema returns; parameters is the outcome of
\* get_parameters.  `name if name else f.__name__` and
\* `description if description else f.__doc__ or ""` test truthiness, so an
\* explicit empty string is replaced like None.
FunctionSchema(call, parameters) ==
    IF parameters.raised THEN parameters
    ELSE Returned(
           << <<"type", "function">>,
              <<"function",
                (<< <<"name",
                      IF IsTruthy(call.name) THEN call.name.s ELSE call.f.name>>,
                    <<"description",
                      IF IsTruthy(call.description)
                      THEN call.description.s ELSE call.f.doc>>,
                    <<"parameters", parameters.value>> >>)
                \o (IF call.f.is_async THEN << <<"async", TRUE>> >>
                    ELSE << >>)>> >>)

generate_function_schema(call) ==
    FunctionSchema(call,
        get_parameters(
            RequiredOf(call.f.params, call.is_method),
            DropReceiver(get_param_annotations(call.f.params), call.is_method),
            DropReceiver(get_default_values(call.f.params), call.is_method)))

(***************************************************************************)
(* A schema as the Python value validate_schema is handed: the dicts,      *)
(* lists, texts and numbers of the builder's result.                       *)
(***************************************************************************)
RECURSIVE SchemaValue(_)

\* the value under key k of a schema dict
SchemaValueUnder(k, v) ==
    CASE k \in {"function", "parameters", "items"} -> SchemaValue(v)
      [] k = "properties" ->
            DictVal([i \in DOMAIN v |-> <<v[i][1], SchemaValue(v[i][2])>>])
      [] k = "oneOf" -> ListVal([i \in DOMAIN v |-> SchemaValue(v[i])])
      [] k = "required" -> ListVal([i \in DOMAIN v |-> StrVal(v[i])])
      [] k \in {"type", "name", "description"} -> StrVal(v)
      [] k \in {"nullable", "async"} -> BoolVal(v)
      [] k \in {"minimum", "maximum", "exclusiveMinimum", "exclusiveMaximum"} ->
            IntVal(v)
      [] k = "enum" -> ListVal(v)
      [] OTHER -> v

SchemaValue(d) ==
    DictVal([i \in DOMAIN d |-> <<d[i][1], SchemaValueUnder(d[i][1], d[i][2])>>])

(***************************************************************************)
(* The Python operations validate_schema applies to values it has not      *)
(* checked to be dicts.                                                    *)
(***************************************************************************)
\* the texts around a word in the texts of this model
Affixes == {"", "type ", " description"}

\* k in s for two texts: k occurs in s
IsSubstring(k, s) == \E pre \in Affixes, post \in Affixes : pre \o k \o post = s

\* k in x: a key of a dict, an element of a list, a part of a text; any
\* other value is not iterable
Contains(x, k) ==
    CASE x.t = "dict" -> Returned(Has(x.items, k))
      [] x.t = "list" ->
            Returned(\E i \in DOMAIN x.items : x.items[i] = StrVal(k))
      [] x.t = "str" -> Returned(IsSubstring(k, x.s))
      [] OTHER -> Raised("TypeError")

\* x[k] for a text k
Subscript(x, k) ==
    IF x.t = "dict"
    THEN IF Has(x.items, k) THEN Returned(Get(x.items, k)) ELSE Raised("KeyError")
    ELSE Raised("TypeError")

\* what `for option in x` goes through: the elements of a list, the keys of
\* a dict, the characters of a text (the loop of check_properties returns
\* at the first character, so one stands for all)
Elements(x) ==
    CASE x.t = "list" -> Returned(x.items)
      [] x.t = "dict" ->
            Returned([i \in DOMAIN x.items |-> StrVal(x.items[i][1])])
      [] x.t = "str" ->
            Returned(IF x.s = "" THEN << >> ELSE <<StrVal("?")>>)
      [] OTHER -> Raised("TypeError")

\* isinstance(d[k], dict) after "k" in d
IsDictAt(d, k) == Has(d.items, k) /\ Get(d.items, k).t = "dict"

(***************************************************************************)
(* oai_tool/validation.py: validate_schema.                                *)
(***************************************************************************)
\* the loop over details["oneOf"] from its i-th option on: TRUE when the
\* loop ends, FALSE when it returns False
RECURSIVE check_options(_, _, _)
check_options(options, i, details) ==
    IF i > Len(options) THEN Returned(TRUE)
    ELSE IF Contains(options[i], "type").raised
    THEN Contains(options[i], "type")
    ELSE IF ~(Contains(options[i], "type").value
              /\ Contains(details, "description").value)
    THEN Returned(FALSE)
    ELSE check_options(options, i + 1, details)

\* the oneOf branch: details["oneOf"] and the loop over it
check_oneOf(details) ==
    IF Subscript(details, "oneOf").raised THEN Subscript(details, "oneOf")
    ELSE IF Elements(Subscript(details, "oneOf").value).raised
    THEN Elements(Subscript(details, "oneOf").value)
    ELSE check_options(Elements(Subscript(details, "oneOf").value).value,
                       1, details)

\* the else branch; nested is the outcome of the recursive call on
\* details["properties"]
check_typed(details, nested) ==
    IF ~Contains(details, "type").value \/ ~Contains(details, "description").value
    THEN Returned(FALSE)
    ELSE IF Subscript(details, "type").raised THEN Subscript(details, "type")
    ELSE IF Subscript(details, "type").value = StrVal("object")
    THEN IF ~IsDictAt(details, "properties") THEN Returned(FALSE) ELSE nested
    ELSE IF Subscript(details, "type").value = StrVal("array")
    THEN IF ~IsDictAt(details, "items") THEN Returned(FALSE)
         ELSE Returned(/\ Has(Get(details.items, "items").items, "type")
                       /\ Has(details.items, "description"))
    ELSE Returned(TRUE)

\* the body of the loop of check_properties for one property: TRUE when the
\* loop goes on to the next property, FALSE when it returns False
check_property(details, nested) ==
    IF Contains(details, "oneOf").raised THEN Contains(details, "oneOf")
    ELSE IF Contains(details, "oneOf").value THEN check_oneOf(details)
    ELSE check_typed(details, nested)

\* the loop from the i-th property on; first is the outcome of the body for
\* that property and rest the outcome of the loop after it
LoopStep(first, rest) ==
    IF first.raised THEN first
    ELSE IF ~first.value THEN first
    ELSE rest

RECURSIVE check_properties_from(_, _)
check_properties_from(properties, i) ==
    IF i > Len(properties) THEN Returned(TRUE)
    ELSE LoopStep(
           check_property(
               properties[i][2],
               IF properties[i][2].t = "dict"
                  /\ IsDictAt(properties[i][2], "properties")
               THEN check_properties_from(
                        Get(properties[i][2].items, "properties").items, 1)
               ELSE Returned(FALSE)),
           check_properties_from(properties, i + 1))

\* check_properties(properties) for a dict
check_properties(properties) == check_properties_from(properties.items, 1)

\* from parameters = function["parameters"] on
validate_parameters(parameters) ==
    IF Subscript(parameters, "type").raised THEN Subscript(parameters, "type")
    ELSE IF Subscript(parameters, "type").value # StrVal("object")
    THEN Returned(FALSE)
    ELSE IF ~IsDictAt(parameters, "properties") THEN Returned(FALSE)
    ELSE IF ~(Has(parameters.items, "required")
              /\ Get(parameters.items, "required").t = "list")
    THEN Returned(FALSE)
    ELSE check_properties(Get(parameters.items, "properties"))

\* from function = schema["function"] on; function.keys() needs a dict
validate_function(function) ==
    IF function.t # "dict" THEN Raised("AttributeError")
    ELSE IF ~({"name", "description", "parameters"} \subseteq Keys(function.items))
    THEN Returned(FALSE)
    ELSE validate_parameters(Get(function.items, "parameters"))

\* validate_schema(schema) for a dict
validate_schema(s) ==
    IF ~({"type", "function"} \subseteq Keys(s.items)) THEN Returned(FALSE)
    ELSE validate_function(Get(s.items, "function"))

(***************************************************************************)
(* llm_codebridge/schema_generation.py: the copy of the builder that the   *)
(* Tool decorator of llm_codebridge/decorators.py imports.  Its text is    *)
(* that of core.py except in the BaseModel branch of type2schema.          *)
(***************************************************************************)
RECURSIVE schema_generation_type2schema(_)

\* the BaseModel branch: the loop calls type2schema(field) with the FieldInfo
\* object of the field (not its annotation); a FieldInfo object is no
\* Literal, no class, no list and no Union, so the first field raises the
\* unsupported-type error.  Without fields the loop is empty and
\* base_type.__doc__ or getattr(base_type.Config, "title", "") reads
\* base_type.Config when there is no docstring, which a pydantic v2 model
\* does not have.
schema_generation_ModelSchema(c) ==
    IF model_fields(c) # << >> THEN Raised("TypeError")
    ELSE IF model_description(c) # ""
         THEN Returned(<< <<"type", "object">>,
                          <<"properties", EmptyDict>>,
                          <<"description", model_description(c)>> >>)
         ELSE Raised("AttributeError")

\* the shape dispatch of schema_generation.type2schema on base_type
schema_generation_ShapeSchema(base_type) ==
    IF get_origin(base_type) = "Literal"
    THEN Returned(LiteralSchema(base_type))
    ELSE IF base_type.shape = "class"
    THEN IF IsPrimitiveClass(base_type.cls)
         THEN Returned(PrimitiveSchema(base_type.cls))
         ELSE IF issubclass(base_type.cls, "BaseModel")
         THEN schema_generation_ModelSchema(base_type.cls)
         ELSE IF issubclass(base_type.cls, "Enum")
         THEN Returned(EnumSchema(base_type.cls))
         ELSE Returned(EmptyDict)
    ELSE IF get_origin(base_type) = "list"
    THEN ListSchema(schema_generation_type2schema(base_type.args[1]))
    ELSE IF get_origin(base_type) = "Union"
    THEN IF IsOptional(base_type.args)
         THEN NullableSchema(
                  schema_generation_type2schema(non_none_type(base_type.args)))
         ELSE OneOfSchema([i \in DOMAIN base_type.args |->
                              schema_generation_type2schema(base_type.args[i])])
    ELSE Raised("TypeError")

schema_generation_type2schema(annotation) ==
    WithBounds(schema_generation_ShapeSchema(extract_annotated_type(annotation)),
               extract_annotation_metadata(annotation))

schema_generation_get_parameter_json_schema(k, v, default_values) ==
    ParameterNode(k, schema_generation_type2schema(v),
                  extract_annotation_metadata(v), default_values)

schema_generation_get_parameters(required, param_annotations, default_values) ==
    ParametersNode(required, param_annotations,
        [i \in DOMAIN param_annotations |->
            schema_generation_get_parameter_json_schema(
                param_annotations[i][1], param_annotations[i][2],
                default_values)])

\* oai_tool/schema_generation.py: type2schema.  Its branches are those of
\* core.py word for word (field.annotation, field.description,
\* base_type.model_config), so every recursive call is core.py's
oai_tool_type2schema(annotation) ==
    WithBounds(ShapeSchema(extract_annotated_type(annotation)),
               extract_annotation_metadata(annotation))

\* llm_codebridge/decorators.py: get_function_schema (the signature helpers
\* get_required_params, get_default_values and get_param_annotations of
\* schema_generation.py have the text of those of core.py)
get_function_schema(call) ==
    FunctionSchema(call,
        schema_generation_get_parameters(
            RequiredOf(call.f.params, call.is_method),
            DropReceiver(get_param_annotations(call.f.params), call.is_method),
            DropReceiver(get_default_values(call.f.params), call.is_method)))

(***************************************************************************)
(* The models the validators build from a function schema.                 *)
(***************************************************************************)
TYPE_MAPPING ==
    << <<"string", Cls("str")>>,
       <<"integer", Cls("int")>>,
       <<"number", Cls("float")>>,
       <<"boolean", Cls("bool")>>,
       <<"array", Cls("list")>>,
       <<"object", Cls("dict")>> >>

\* typing.Any
AnyType == [shape |-> "Any"]

\* q with x appended unless q holds it already
AppendNew(q, x) ==
    IF \E i \in DOMAIN q : q[i] = x THEN q ELSE Append(q, x)

RECURSIVE Deduplicated(_)
Deduplicated(q) ==
    IF q = << >> THEN << >>
    ELSE AppendNew(Deduplicated(SubSeq(q, 1, Len(q) - 1)), q[Len(q)])

RECURSIVE Flattened(_)
Flattened(q) ==
    IF q = << >> THEN << >>
    ELSE (IF Head(q).shape = "Union" THEN Head(q).args ELSE <<Head(q)>>)
         \o Flattened(Tail(q))

\* Union[...] of one type is that type
UnionOrSingle(q) == IF Len(q) = 1 THEN q[1] ELSE Union(q)

\* typing.Union[tuple(...)]: a union inside the union is flattened, a
\* repeated argument is dropped, no argument at all is a TypeError; parsed[i]
\* is the outcome of parse_type for the i-th option
UnionOfParsed(parsed) ==
    IF parsed = << >> THEN Raised("TypeError")
    ELSE IF \E i \in DOMAIN parsed : parsed[i].raised
    THEN parsed[CHOOSE i \in DOMAIN parsed :
                    /\ parsed[i].raised
                    /\ \A j \in DOMAIN parsed : parsed[j].raised => i <= j]
    ELSE Returned(UnionOrSingle(Deduplicated(Flattened(
             [i \in DOMAIN parsed |-> parsed[i].value]))))

\* decorators.py: parse_type, nested in create_pydantic_model_from_schema
\* (core.py has the same function at module level and does not call it)
RECURSIVE parse_type(_)
parse_type(type_info) ==
    IF Has(type_info, "oneOf")
    THEN UnionOfParsed([i \in DOMAIN Get(type_info, "oneOf") |->
                           parse_type(Get(type_info, "oneOf")[i])])
    ELSE IF ~Has(type_info, "type") THEN Raised("KeyError")
    ELSE Returned(IF Has(TYPE_MAPPING, Get(type_info, "type"))
                  THEN Get(TYPE_MAPPING, Get(type_info, "type"))
                  ELSE AnyType)

\* one entry of fields: (field_type, Field(default=..., description=...));
\* the default is ... (required) or None
ModelField(key, field_type, required, description) ==
    [name |-> key, annotation |-> field_type, required |-> required,
     description |-> description]

\* pydantic.create_model(name, **fields)
create_model(name, fields) == [name |-> name, fields |-> fields]

\* the loop over parameters.properties and the final create_model, shared by
\* create_model_from_schema and create_pydantic_model_from_schema;
\* field_types[i] is the outcome of the field_type expression for the i-th
\* property
ModelOfFields(function_schema, field_types) ==
    IF \E i \in DOMAIN field_types : field_types[i].raised
    THEN field_types[CHOOSE i \in DOMAIN field_types :
                         /\ field_types[i].raised
                         /\ \A j \in DOMAIN field_types :
                               field_types[j].raised => i <= j]
    ELSE Returned(
           create_model(
               Get(function_schema, "name") \o "Model",
               [i \in DOMAIN field_types |->
                   ModelField(
                       Get(Get(function_schema, "parameters"),
                           "properties")[i][1],
                       field_types[i].value,
                       /\ Has(Get(function_schema, "parameters"), "required")
                       /\ \E j \in DOMAIN Get(Get(function_schema, "parameters"),
                                              "required") :
                             Get(Get(function_schema, "parameters"),
                                 "required")[j]
                                 = Get(Get(function_schema, "parameters"),
                                       "properties")[i][1],
                       IF Has(Get(Get(function_schema, "parameters"),
                                  "properties")[i][2], "description")
                       THEN Get(Get(Get(function_schema, "parameters"),
                                    "properties")[i][2], "description")
                       ELSE "")]))

\* field_type = TYPE_MAPPING[value["type"]]
MappedType(value) ==
    IF ~Has(value, "type") THEN Raised("KeyError")
    ELSE IF ~Has(TYPE_MAPPING, Get(value, "type")) THEN Raised("KeyError")
    ELSE Returned(Get(TYPE_MAPPING, Get(value, "type")))

\* core.py
create_model_from_schema(s) ==
    ModelOfFields(
        Get(s, "function"),
        [i \in DOMAIN Get(Get(Get(s, "function"), "parameters"), "properties") |->
            MappedType(Get(Get(Get(s, "function"), "parameters"),
                           "properties")[i][2])])

\* decorators.py
create_pydantic_model_from_schema(s) ==
    ModelOfFields(
        Get(s, "function"),
        [i \in DOMAIN Get(Get(Get(s, "function"), "parameters"), "properties") |->
            parse_type(Get(Get(Get(s, "function"), "parameters"),
                           "properties")[i][2])])

(***************************************************************************)
(* pydantic's validation of input data against such a model, as            *)
(* the model called on the response's items as keyword arguments and       *)
(* response_model.model_validate(response)                                 *)
(* run it.  pydantic is a dependency, not part of the repository; this     *)
(* states the behaviour of pydantic v2 in its default, lax mode: a field   *)
(* without value is an error when required and None otherwise, a key that  *)
(* is no field is ignored, str accepts only strings, int accepts integers, *)
(* booleans, integral floats and integer texts, float accepts numbers,     *)
(* booleans and numeric texts, bool accepts booleans, 0 and 1 and the      *)
(* texts of BoolTexts, list and dict accept any list or dict without       *)
(* looking inside, and every error of every field is collected in field    *)
(* order.                                                                  *)
(***************************************************************************)
\* outcome of one type validator: the validated value or the error type
Accept(v) == [ok |-> TRUE, value |-> v, type |-> ""]

Reject(e) == [ok |-> FALSE, value |-> NoneVal, type |-> e]

\* one entry of ValidationError.errors(): its type and its location
ErrorDetail(type, loc) == [type |-> type, loc |-> loc]

\* outcome of validating a field or a model: the value or the error list
Valid(v) == [ok |-> TRUE, value |-> v, errors |-> << >>]

Invalid(es) == [ok |-> FALSE, value |-> NoneVal, errors |-> es]

\* int(s) for the texts that are integers
IntegerTexts == << <<"30", 30>>, <<"1", 1>>, <<"0", 0>> >>

\* the texts a bool field accepts
BoolTexts ==
    << <<"1", TRUE>>, <<"on", TRUE>>, <<"t", TRUE>>, <<"true", TRUE>>,
       <<"y", TRUE>>, <<"yes", TRUE>>,
       <<"0", FALSE>>, <<"off", FALSE>>, <<"f", FALSE>>, <<"false", FALSE>>,
       <<"n", FALSE>>, <<"no", FALSE>> >>

validate_str(v, strict) ==
    IF v.t = "str" THEN Accept(v) ELSE Reject("string_type")

validate_int(v, strict) ==
    CASE v.t = "int" -> Accept(v)
      [] v.t = "bool" ->
            IF strict THEN Reject("int_type") ELSE Accept(IntVal(v.n))
      [] v.t = "float" ->
            IF strict THEN Reject("int_type")
            ELSE IF v.n % 2 = 0 THEN Accept(IntVal(v.n \div 2))
            ELSE Reject("int_from_float")
      [] v.t = "str" ->
            IF strict THEN Reject("int_type")
            ELSE IF Has(IntegerTexts, v.s)
            THEN Accept(IntVal(Get(IntegerTexts, v.s)))
            ELSE Reject("int_parsing")
      [] OTHER -> Reject("int_type")

validate_float(v, strict) ==
    CASE v.t = "float" -> Accept(v)
      [] v.t = "int" -> Accept(FloatVal(2 * v.n))
      [] v.t = "bool" ->
            IF strict THEN Reject("float_type") ELSE Accept(FloatVal(2 * v.n))
      [] v.t = "str" ->
            IF strict THEN Reject("float_type")
            ELSE IF Has(IntegerTexts, v.s)
            THEN Accept(FloatVal(2 * Get(IntegerTexts, v.s)))
            ELSE Reject("float_parsing")
      [] OTHER -> Reject("float_type")

validate_bool(v, strict) ==
    CASE v.t = "bool" -> Accept(v)
      [] v.t = "int" ->
            IF strict THEN Reject("bool_type")
            ELSE IF v.n \in {0, 1} THEN Accept(BoolVal(v.n = 1))
            ELSE Reject("bool_parsing")
      [] v.t = "float" ->
            IF strict THEN Reject("bool_type")
            ELSE IF v.n \in {0, 2} THEN Accept(BoolVal(v.n = 2))
            ELSE Reject("bool_parsing")
      [] v.t = "str" ->
            IF strict THEN Reject("bool_type")
            ELSE IF Has(BoolTexts, v.s) THEN Accept(BoolVal(Get(BoolTexts, v.s)))
            ELSE Reject("bool_parsing")
      [] OTHER -> Reject("bool_type")

validate_list(v, strict) ==
    IF v.t = "list" THEN Accept(v) ELSE Reject("list_type")

validate_dict(v, strict) ==
    IF v.t = "dict" THEN Accept(v) ELSE Reject("dict_type")

\* the validator of a field type that is no union
validate_type(a, v, strict) ==
    IF a.shape = "Any" THEN Accept(v)
    ELSE CASE a.cls = "str" -> validate_str(v, strict)
           [] a.cls = "int" -> validate_int(v, strict)
           [] a.cls = "float" -> validate_float(v, strict)
           [] a.cls = "bool" -> validate_bool(v, strict)
           [] a.cls = "list" -> validate_list(v, strict)
           [] a.cls = "dict" -> validate_dict(v, strict)

\* the name of a union member in the location of its error
UnionTag(a) ==
    IF a.shape = "Any" THEN "any"
    ELSE CASE a.cls = "list" -> "list[any]"
           [] a.cls = "dict" -> "dict[any,any]"
           [] OTHER -> a.cls

\* the value the first member of hits gives v
FirstMatch(args, hits, v, strict) ==
    Valid(validate_type(args[CHOOSE i \in hits : \A j \in hits : i <= j],
                        v, strict).value)

\* a union field (smart mode): a member of exactly the type of the value
\* wins, then the first member that accepts it in strict mode, then the
\* first member that accepts it in lax mode; when none does, the error of
\* every member is reported under <<field, member>>
validate_union(args, v, loc) ==
    IF \E i \in DOMAIN args : args[i].shape = "class" /\ args[i].cls = v.t
    THEN Valid(v)
    ELSE IF \E i \in DOMAIN args : validate_type(args[i], v, TRUE).ok
    THEN FirstMatch(args,
                    {i \in DOMAIN args : validate_type(args[i], v, TRUE).ok},
                    v, TRUE)
    ELSE IF \E i \in DOMAIN args : validate_type(args[i], v, FALSE).ok
    THEN FirstMatch(args,
                    {i \in DOMAIN args : validate_type(args[i], v, FALSE).ok},
                    v, FALSE)
    ELSE Invalid([i \in DOMAIN args |->
                     ErrorDetail(validate_type(args[i], v, FALSE).type,
                                 loc \o <<UnionTag(args[i])>>)])

\* the outcome of a type validator as the outcome of its field
FieldOutcome(r, loc) ==
    IF r.ok THEN Valid(r.value) ELSE Invalid(<<ErrorDetail(r.type, loc)>>)

\* one field against the input data (a dict)
validate_field(field, data) ==
    IF ~Has(data, field.name)
    THEN IF field.required
         THEN Invalid(<<ErrorDetail("missing", <<field.name>>)>>)
         ELSE Valid(NoneVal)
    ELSE IF field.annotation.shape = "Union"
    THEN validate_union(field.annotation.args, Get(data, field.name),
                        <<field.name>>)
    ELSE FieldOutcome(validate_type(field.annotation, Get(data, field.name),
                                    FALSE),
                      <<field.name>>)

RECURSIVE Concatenated(_)
Concatenated(q) ==
    IF q = << >> THEN << >> ELSE Head(q) \o Concatenated(Tail(q))

\* the model instance (its field values in field order) or every error
ModelOutcome(fields, results) ==
    IF \A i \in DOMAIN results : results[i].ok
    THEN Valid([i \in DOMAIN results |-> <<fields[i].name, results[i].value>>])
    ELSE Invalid(Concatenated([i \in DOMAIN results |-> results[i].errors]))

\* validate_model under extra="forbid": a key that is no field is an error
validate_model_ForbidExtra(model, data) ==
    ModelOutcome(model.fields \o <<[name |-> "extra"]>>,
                 [i \in DOMAIN model.fields |->
                     validate_field(model.fields[i], data)]
                 \o <<IF \A j \in DOMAIN data :
                            \E i \in DOMAIN model.fields :
                                model.fields[i].name = data[j][1]
                       THEN Valid(NoneVal)
                       ELSE Invalid(<<ErrorDetail("extra_forbidden", << >>)>>)>>)

validate_model(model, data) ==
    ModelOutcome(model.fields,
                 [i \in DOMAIN model.fields |->
                     validate_field(model.fields[i], data)])

(***************************************************************************)
(* core.py: validate_llm_response.  Only ValidationError is caught: an     *)
(* exception of create_model_from_schema, and the TypeError raised by      *)
(* unpacking a response that is no mapping as keyword arguments, leave     *)
(* the function.                                                           *)
(***************************************************************************)
\* the two return statements: (True, validated_response.model_dump()) and
\* (False, e.errors())
ResponseVerdict(validated) ==
    IF validated.ok THEN Returned(<<TRUE, validated.value>>)
    ELSE Returned(<<FALSE, validated.errors>>)

\* the try block once create_model_from_schema has run (response_model is
\* its outcome)
ValidatedResponse(r, response_model) ==
    IF response_model.raised THEN response_model
    ELSE IF r.t # "dict" THEN Raised("TypeError")
    ELSE ResponseVerdict(validate_model(response_model.value, r.items))

validate_llm_response(r, expected_schema) ==
    ValidatedResponse(r, create_model_from_schema(expected_schema))

(***************************************************************************)
(* llm_codebridge/decorators.py: the Tool decorator.                       *)
(***************************************************************************)
\* str(e.errors()): the text of the error list
ErrorText(es) == [t |-> "str", repr |-> es]

\* the two return statements: True and str(error_message)
ToolVerdict(validated) ==
    IF validated.ok THEN Returned(BoolVal(TRUE))
    ELSE Returned(ErrorText(validated.errors))

\* the try block once create_pydantic_model_from_schema has run
\* (response_model is its outcome); for model_validate an input that is no
\* dict is a model_type error, not an exception
ToolValidated(r, response_model) ==
    IF response_model.raised THEN response_model
    ELSE IF r.t # "dict"
    THEN ToolVerdict(Invalid(<<ErrorDetail("model_type", << >>)>>))
    ELSE ToolVerdict(validate_model(response_model.value, r.items))

\* Tool.validate_response(response, expected_schema)
Tool_validate_response(r, expected_schema) ==
    ToolValidated(r, create_pydantic_model_from_schema(expected_schema))

\* is_method of Tool.__call__
Tool_is_method(f) ==
    \/ \E i \in DOMAIN f.params : f.params[i].name = "self"
    \/ \E i \in DOMAIN f.params : f.params[i].name = "cls"

\* the rest of Tool.__call__ once f.schema is built (built is the outcome of
\* get_function_schema): the input model is created from f.schema, then the
\* wrapper that carries f.schema is returned
ToolWrapper(built, input_model) ==
    IF built.raised THEN built
    ELSE IF input_model.raised THEN input_model
    ELSE built

ToolDecorated(built) ==
    ToolWrapper(built,
                IF built.raised THEN built
                ELSE create_pydantic_model_from_schema(built.value))

\* Tool(name=..., description=...)(f): the schema attribute of the wrapper
\* it returns, or what it raises
Tool__call__(name, description, f) ==
    ToolDecorated(
        get_function_schema(Call(f, name, description, Tool_is_method(f))))

(***************************************************************************)
(* decorators.py: the wrapper Tool.__call__ returns.  A decorated function *)
(* is the callable with the names of its keyword-only parameters (those    *)
(* declared after a bare star).  A call is the tuple args and the ordered  *)
(* dict kwargs.  The underlying function is taken to return the arguments  *)
(* it ran with, so that two invocations give the same result exactly when  *)
(* they hand it the same arguments.                                        *)
(***************************************************************************)
\* the marker of a parameter the call gives no value
Unbound == [t |-> "unbound"]

\* the parameter slots of inspect.signature(f).bind(*args, **kwargs)
BindSlots(d, args, kwargs) ==
    [i \in DOMAIN d.f.params |->
        <<d.f.params[i].name,
          IF i <= Len(args) THEN args[i]
          ELSE IF Has(kwargs, d.f.params[i].name)
               THEN Get(kwargs, d.f.params[i].name)
               ELSE Unbound>>]

\* inspect.signature(f).bind(*args, **kwargs): bound_args.arguments, or the
\* TypeError of a call the signature does not admit
Bind(d, args, kwargs) ==
    LET params == d.f.params
    IN IF \/ \E i \in DOMAIN args :
                i > Len(params) \/ params[i].name \in d.kwonly
          \/ \E i \in DOMAIN params :
                i <= Len(args) /\ Has(kwargs, params[i].name)
          \/ \E k \in Keys(kwargs) :
                \A i \in DOMAIN params : params[i].name # k
          \/ \E i \in DOMAIN params :
                /\ i > Len(args)
                /\ ~Has(kwargs, params[i].name)
                /\ ~params[i].default.has
       THEN Raised("TypeError")
       ELSE Returned(SelectSeq(BindSlots(d, args, kwargs),
                               LAMBDA kv : kv[2] # Unbound))

\* bound_args.apply_defaults()
apply_defaults(d, arguments) ==
    [i \in DOMAIN d.f.params |->
        <<d.f.params[i].name,
          IF Has(arguments, d.f.params[i].name)
          THEN Get(arguments, d.f.params[i].name)
          ELSE d.f.params[i].default.value>>]

\* bound_args.kwargs: of the bound arguments, those of keyword-only
\* parameters; the others are in bound_args.args
bound_kwargs(d, arguments) ==
    SelectSeq(arguments, LAMBDA kv : kv[1] \in d.kwonly)

\* f(*args, **kwargs): the arguments f runs with, or the TypeError of the
\* call
Invoke(d, args, kwargs) ==
    IF Bind(d, args, kwargs).raised
    THEN Bind(d, args, kwargs)
    ELSE Returned(apply_defaults(d, Bind(d, args, kwargs).value))

\* {k: v for k, v in bound_args.arguments.items() if k != "self"}
validated_data(arguments) == Pop(arguments, "self")

\* the body of wrapper after bind and apply_defaults: the arguments are
\* validated against input_model, the ValidationError is raised again,
\* then f(*args, **bound_args.kwargs)
WrapperBody(input_model, d, args, arguments) ==
    IF ~validate_model(input_model, validated_data(arguments)).ok
    THEN Raised("ValidationError")
    ELSE Invoke(d, args, bound_kwargs(d, arguments))

\* wrapper(*args, **kwargs) with self.input_model being input_model
wrapper(input_model, d, args, kwargs) ==
    IF Bind(d, args, kwargs).raised
    THEN Bind(d, args, kwargs)
    ELSE WrapperBody(input_model, d, args,
                     apply_defaults(d, Bind(d, args, kwargs).value))

(***************************************************************************)
(* core.py and decorators.py: process_schema (the two copies do the same). *)
(***************************************************************************)
\* reorder_keys: description first, the other keys in their order
reorder_keys(d) ==
    IF Has(d, "description")
    THEN << <<"description", Get(d, "description")>> >> \o Pop(d, "description")
    ELSE d

RECURSIVE process_schema(_)

\* the argument of process_schema once the call has assigned its
\* "properties" and "items" entries (the dict is changed in place);
\* only a dict that has one of these two keys is looked into
process_schema_assigned(d) ==
    IF Has(d, "properties")
    THEN IF Has(d, "items")
         THEN Put(Put(d, "properties",
                      [i \in DOMAIN Get(d, "properties") |->
                          <<Get(d, "properties")[i][1],
                            process_schema(
                                reorder_keys(Get(d, "properties")[i][2]))>>]),
                  "items", process_schema(reorder_keys(Get(d, "items"))))
         ELSE Put(d, "properties",
                  [i \in DOMAIN Get(d, "properties") |->
                      <<Get(d, "properties")[i][1],
                        process_schema(
                            reorder_keys(Get(d, "properties")[i][2]))>>])
    ELSE IF Has(d, "items")
    THEN Put(d, "items", process_schema(reorder_keys(Get(d, "items"))))
    ELSE d

process_schema(d) == reorder_keys(process_schema_assigned(d))

(***************************************************************************)
(* The inputs: annotations a program can declare.  typing flattens nested  *)
(* unions and nested Annotated and removes duplicate union arguments, so   *)
(* no annotation below has a union directly inside a union, an Annotated   *)
(* directly inside an Annotated, or a repeated union argument.             *)
(***************************************************************************)
BasicAnnotations ==
    {Cls(c) : c \in ClassNames}
    \cup {Literal(<<StrVal("option1"), StrVal("option2")>>),
          Literal(<<IntVal(1), IntVal(2)>>),
          Union(<<Cls("int"), Cls("str")>>),
          Generic("tuple", <<Cls("int"), Cls("str")>>),
          Generic("set", <<Cls("int")>>)}

BoundValue(attr) ==
    CASE attr = "gt" -> 0
      [] attr = "ge" -> 1
      [] attr = "lt" -> 11
      [] attr = "le" -> 10
      [] OTHER -> 3

\* Field(**kwargs).metadata for the keywords in S
ConstraintList(S) ==
    LET attrs == SelectSeq(<<"gt", "ge", "lt", "le", "min_length">>,
                           LAMBDA a : a \in S)
    IN [i \in DOMAIN attrs |-> Constraint(attrs[i], BoundValue(attrs[i]))]

\* numeric parameters with every combination of the four bounds
BoundedAnnotations ==
    {Annotated(Cls(c), <<FieldInfo(d, ConstraintList(S))>>) :
        c \in {"int", "float"}, d \in {"", "A number"},
        S \in SUBSET {"gt", "ge", "lt", "le"}}
    \cup {Annotated(Cls("str"),
                    <<FieldInfo("", ConstraintList({"min_length"}))>>),
          Annotated(Cls("int"),
                    <<OtherMeta, FieldInfo("", ConstraintList({"ge"}))>>),
          Annotated(Cls("int"), <<OtherMeta>>)}

WrapMetas ==
    {<<FieldInfo("A value", << >>)>>,
     <<FieldInfo("", ConstraintList({"ge", "le"}))>>}

UnionPartner == Cls("str")

Wrap(S) ==
    LET plain == {x \in S : x.shape # "Union"}
    IN {Generic("list", <<a>>) : a \in S}
       \cup {Optional(a) : a \in S}
       \cup {Union(<<a, UnionPartner>>) : a \in plain \ {UnionPartner}}
       \cup {Union(<<Cls("int"), a, NoneType>>) :
                a \in plain \ {Cls("int"), NoneType}}
       \cup {Annotated(a, m) :
                a \in {x \in S : x.shape # "Annotated"}, m \in WrapMetas}

RECURSIVE AnnotationsUpTo(_)
AnnotationsUpTo(n) ==
    IF n = 0 THEN BasicAnnotations
    ELSE BasicAnnotations \cup Wrap(AnnotationsUpTo(n - 1))

Annotations == AnnotationsUpTo(MaxDepth) \cup BoundedAnnotations

\* def f(value: <a>): ...   called as generate_function_schema(f)
OneParam(a) ==
    Call(Callable("f", "Does f", FALSE, <<Param("value", a, NoDefault)>>),
         NoneVal, NoneVal, FALSE)

\* signatures with several parameters, defaults, unannotated parameters,
\* a receiver, a parameter that is named cls without being a receiver
ParamLists ==
    {<< >>,
     <<Param("a", Annotated(Cls("int"), <<FieldInfo("The first", << >>)>>),
             NoDefault),
       Param("b", Cls("int"), Default(IntVal(2)))>>,
     <<Param("self", SignatureEmpty, NoDefault),
       Param("a", Cls("int"), NoDefault),
       Param("b", Optional(Cls("str")), Default(NoneVal))>>,
     <<Param("cls", Cls("object"), NoDefault),
       Param("x", SignatureEmpty, NoDefault),
       Param("y", Generic("list", <<Union(<<Cls("int"), Cls("str")>>)>>),
             NoDefault)>>,
     <<Param("user", Cls("User"), NoDefault),
       Param("mode", Cls("Color"), Default(StrVal("red")))>>,
     <<Param("item", Cls("str"), NoDefault),
       Param("cls", Cls("str"), NoDefault)>>}

\* the name= and description= arguments: left at None, empty, or a text
ExplicitTexts == {NoneVal, StrVal(""), StrVal("tool")}

\* calls of generate_function_schema on plain and coroutine functions, with
\* and without docstring, explicit name/description and is_method
Calls ==
    {OneParam(a) : a \in Annotations}
    \cup {Call(Callable("g", d, a, ps), n, n, m) :
            d \in {"", "Does g"}, a \in BOOLEAN, ps \in ParamLists,
            n \in ExplicitTexts, m \in BOOLEAN}

\* Tool(name=..., description=...)(f)
ToolCall(f, n, d) == [f |-> f, name |-> n, description |-> d]

\* the Tool decorator applied to the callables of Calls
ToolCalls == {ToolCall(c.f, c.name, c.description) : c \in Calls}

(***************************************************************************)
(* The inputs: candidate responses.  A candidate is a JSON value: most     *)
(* are objects, some are not.                                              *)
(***************************************************************************)
AddressOk ==
    DictVal(<< <<"street", StrVal("Main St")>>,
               <<"zip_code", StrVal("12345")>> >>)

\* an Address without its zip_code
AddressNoZip == DictVal(<< <<"street", StrVal("Main St")>> >>)

UserOk ==
    DictVal(<< <<"name", StrVal("John")>>,
               <<"age", IntVal(30)>>,
               <<"address", AddressOk>>,
               <<"friends", ListVal(<<AddressOk>>)>> >>)

\* a User without its name
UserNoName ==
    DictVal(<< <<"age", IntVal(30)>>,
               <<"address", AddressOk>>,
               <<"friends", ListVal(<< >>)>> >>)

\* a User whose age is a text
UserBadAge ==
    DictVal(<< <<"name", StrVal("John")>>,
               <<"age", StrVal("thirty")>>,
               <<"address", AddressOk>>,
               <<"friends", ListVal(<< >>)>> >>)

Values ==
    {StrVal("John"), StrVal("30"), StrVal("red"), StrVal("purple"),
     IntVal(30), IntVal(-1), BoolVal(TRUE), FloatVal(60), FloatVal(61),
     NoneVal,
     ListVal(<< >>), ListVal(<<IntVal(1), StrVal("x")>>),
     ListVal(<<AddressOk, AddressNoZip>>),
     AddressOk, AddressNoZip, UserOk, UserNoName, UserBadAge}

\* candidates that are no object
NonMappings == {NoneVal, ListVal(<< >>), StrVal("John")}

\* candidates for the one-parameter callables: nothing, each value, and a
\* value together with a key the schema does not declare
SingleValueResponses ==
    {DictVal(<< >>)}
    \cup {DictVal(<< <<"value", v>> >>) : v \in Values}
    \cup {DictVal(<< <<"value", IntVal(30)>>, <<"extra", IntVal(1)>> >>),
          DictVal(<< <<"extra", StrVal("John")>>, <<"value", NoneVal>> >>),
          DictVal(<< <<"extra", IntVal(1)>> >>)}

\* candidates for the callables of ParamLists
SeveralValueResponses ==
    {DictVal(<< <<"a", IntVal(30)>> >>),
     DictVal(<< <<"b", IntVal(30)>> >>),
     DictVal(<< <<"a", IntVal(30)>>, <<"b", IntVal(-1)>> >>),
     DictVal(<< <<"a", StrVal("30")>>, <<"b", NoneVal>> >>),
     DictVal(<< <<"a", StrVal("John")>>, <<"b", ListVal(<< >>)>> >>),
     DictVal(<< <<"user", UserOk>> >>),
     DictVal(<< <<"user", UserNoName>>, <<"mode", StrVal("purple")>> >>),
     DictVal(<< <<"mode", StrVal("red")>> >>),
     DictVal(<< <<"cls", StrVal("John")>>, <<"y", ListVal(<< >>)>> >>),
     DictVal(<< <<"cls", StrVal("John")>>, <<"x", IntVal(30)>>,
                <<"y", ListVal(<<IntVal(1), StrVal("x")>>)>> >>),
     DictVal(<< <<"item", StrVal("John")>> >>),
     DictVal(<< <<"item", StrVal("John")>>, <<"cls", StrVal("red")>> >>)}

Responses == NonMappings \cup SingleValueResponses \cup SeveralValueResponses

\* the annotations of the one-parameter callables whose schema is handed to
\* a response validator: the validators read the type and oneOf keys of a
\* property node and nothing below them, so one level of nesting less than
\* the builder is given
ValidatedAnnotations == AnnotationsUpTo(MaxDepth - 1) \cup BoundedAnnotations

\* the schema of the call is one a response validator is given
Validated(c) ==
    c.f.name = "f" => c.f.params[1].annotation \in ValidatedAnnotations

\* a candidate object answers the callable the schema was built for: its
\* keys are parameter names of that callable or the undeclared key "extra"
Answers(r, f) ==
    r.t = "dict" =>
        Keys(r.items) \subseteq
            ({f.params[i].name : i \in DOMAIN f.params} \cup {"extra"})

(***************************************************************************)
(* The inputs: mappings handed to validate_schema that no builder made.    *)
(***************************************************************************)
StringNode == DictVal(<< <<"type", StrVal("string")>>,
                         <<"description", StrVal("a text")>> >>)

\* what a property of a schema may hold: well-formed nodes, nodes lacking
\* a key, and values that are no mapping
PlainDetails ==
    {StringNode,
     DictVal(<< <<"type", StrVal("string")>> >>),
     DictVal(<< <<"description", StrVal("a text")>> >>),
     DictVal(<< >>),
     DictVal(<< <<"type", StrVal("object")>>,
                <<"description", StrVal("a record")>> >>),
     DictVal(<< <<"type", StrVal("object")>>,
                <<"properties", ListVal(<< >>)>>,
                <<"description", StrVal("a record")>> >>),
     DictVal(<< <<"type", StrVal("array")>>,
                <<"description", StrVal("a list")>> >>),
     DictVal(<< <<"type", StrVal("array")>>,
                <<"items", StringNode>>,
                <<"description", StrVal("a list")>> >>),
     DictVal(<< <<"type", StrVal("array")>>,
                <<"items", DictVal(<< <<"oneOf", ListVal(<<StringNode>>)>> >>)>>,
                <<"description", StrVal("a list")>> >>),
     DictVal(<< <<"type", StrVal("array")>>,
                <<"items", StrVal("type")>>,
                <<"description", StrVal("a list")>> >>),
     DictVal(<< <<"oneOf", ListVal(<<StringNode,
                                     DictVal(<< <<"type", StrVal("integer")>> >>)>>)>>,
                <<"description", StrVal("a choice")>> >>),
     DictVal(<< <<"oneOf", ListVal(<<StringNode>>)>> >>),
     DictVal(<< <<"oneOf", ListVal(<< >>)>> >>),
     DictVal(<< <<"oneOf", ListVal(<<StringNode, DictVal(<< >>)>>)>>,
                <<"description", StrVal("a choice")>> >>),
     DictVal(<< <<"oneOf", ListVal(<<StrVal("type")>>)>>,
                <<"description", StrVal("a choice")>> >>),
     DictVal(<< <<"oneOf", ListVal(<<StringNode, IntVal(5)>>)>>,
                <<"description", StrVal("a choice")>> >>),
     DictVal(<< <<"oneOf", ListVal(<<NoneVal>>)>>,
                <<"description", StrVal("a choice")>> >>),
     DictVal(<< <<"oneOf", IntVal(5)>>,
                <<"description", StrVal("a choice")>> >>),
     DictVal(<< <<"oneOf", StringNode>>,
                <<"description", StrVal("a choice")>> >>),
     DictVal(<< <<"oneOf", StrVal("type")>>,
                <<"description", StrVal("a choice")>> >>),
     IntVal(5), NoneVal, BoolVal(TRUE),
     StrVal("type"), StrVal("oneOf"), StrVal("type description"), StrVal(""),
     ListVal(<< >>),
     ListVal(<<StrVal("type"), StrVal("description")>>),
     ListVal(<<StrVal("oneOf")>>)}

\* a record node with the one field d
ObjectNode(d) ==
    DictVal(<< <<"type", StrVal("object")>>,
               <<"properties", DictVal(<< <<"field", d>> >>)>>,
               <<"description", StrVal("a record")>> >>)

Details == PlainDetails \cup {ObjectNode(d) : d \in PlainDetails}

ParametersWith(properties) ==
    DictVal(<< <<"type", StrVal("object")>>,
               <<"properties", properties>>,
               <<"required", ListVal(<< >>)>> >>)

FunctionWith(parameters) ==
    DictVal(<< <<"name", StrVal("f")>>,
               <<"description", StrVal("Does f")>>,
               <<"parameters", parameters>> >>)

SchemaWith(function) ==
    DictVal(<< <<"type", StrVal("function")>>, <<"function", function>> >>)

\* what function.parameters may hold
ParametersValues ==
    {ParametersWith(DictVal(<< >>)),
     ParametersWith(ListVal(<< >>)),
     ParametersWith(StrVal("type")),
     DictVal(<< <<"properties", DictVal(<< >>)>>,
                <<"required", ListVal(<< >>)>> >>),
     DictVal(<< <<"type", StrVal("array")>>,
                <<"properties", DictVal(<< >>)>>,
                <<"required", ListVal(<< >>)>> >>),
     DictVal(<< <<"type", StrVal("object")>>,
                <<"required", ListVal(<< >>)>> >>),
     DictVal(<< <<"type", StrVal("object")>>,
                <<"properties", DictVal(<< >>)>> >>),
     DictVal(<< <<"type", StrVal("object")>>,
                <<"properties", DictVal(<< >>)>>,
                <<"required", DictVal(<< >>)>> >>),
     DictVal(<< <<"type", StrVal("object")>>,
                <<"properties", DictVal(<< >>)>>,
                <<"required", StrVal("a")>> >>),
     IntVal(5), NoneVal, StrVal("type"), ListVal(<<StrVal("type")>>)}

\* what function may hold
FunctionValues ==
    {FunctionWith(p) : p \in ParametersValues}
    \cup {DictVal(<< <<"name", StrVal("f")>>,
                     <<"parameters", ParametersWith(DictVal(<< >>))>> >>),
          DictVal(<< <<"name", StrVal("f")>>,
                     <<"description", StrVal("Does f")>> >>),
          DictVal(<< >>),
          IntVal(5), NoneVal, StrVal("name description parameters"),
          ListVal(<<StrVal("name"), StrVal("description"),
                    StrVal("parameters")>>)}

\* the mappings: one property of every kind, two properties in both orders,
\* every kind of parameters and function value, and a missing top-level key
SchemaMappings ==
    {SchemaWith(FunctionWith(ParametersWith(DictVal(<< <<"p", d>> >>)))) :
        d \in Details}
    \cup {SchemaWith(FunctionWith(ParametersWith(
               DictVal(<< <<"p", d>>, <<"q", e>> >>)))) :
            d, e \in {StringNode, DictVal(<< >>), IntVal(5)}}
    \cup {SchemaWith(f) : f \in FunctionValues}
    \cup {DictVal(<< <<"type", StrVal("function")>> >>),
          DictVal(<< <<"function",
                       FunctionWith(ParametersWith(DictVal(<< >>)))>> >>),
          DictVal(<< >>)}

\* the functions a Tool instance decorates, each with the names of its
\* keyword-only parameters and, per parameter, a value of the declared type
ToolFunction(f, kwonly, sample) == [f |-> f, kwonly |-> kwonly, sample |-> sample]

\* an instance of the class whose method is decorated
CalculatorInstance == [t |-> "Calculator", s |-> "", n |-> 0]

ToolFunctions ==
    {\* def add_numbers(a: int, b: int): ...
     ToolFunction(
         Callable("add_numbers", "Adds two numbers", FALSE,
                  <<Param("a", Cls("int"), NoDefault),
                    Param("b", Cls("int"), NoDefault)>>),
         {}, <<IntVal(3), IntVal(4)>>),
     \* def greet(name: str, greeting: str = "Hello"): ...
     ToolFunction(
         Callable("greet", "Greets", FALSE,
                  <<Param("name", Cls("str"), NoDefault),
                    Param("greeting", Cls("str"), Default(StrVal("Hello")))>>),
         {}, <<StrVal("Ann"), StrVal("Hi")>>),
     \* def find(query: str, limit: Optional[int] = None): ...
     ToolFunction(
         Callable("find", "Finds", FALSE,
                  <<Param("query", Cls("str"), NoDefault),
                    Param("limit", Optional(Cls("int")), Default(NoneVal))>>),
         {}, <<StrVal("x"), IntVal(5)>>),
     \* async def scale(x: int, *, factor: int = 2): ...
     ToolFunction(
         Callable("scale", "Scales", TRUE,
                  <<Param("x", Cls("int"), NoDefault),
                    Param("factor", Cls("int"), Default(IntVal(2)))>>),
         {"factor"}, <<IntVal(3), IntVal(5)>>),
     \* class Calculator:  def add(self, a: int, b: int): ...
     ToolFunction(
         Callable("add", "Adds", FALSE,
                  <<Param("self", SignatureEmpty, NoDefault),
                    Param("a", Cls("int"), NoDefault),
                    Param("b", Cls("int"), NoDefault)>>),
         {}, <<CalculatorInstance, IntVal(3), IntVal(4)>>)}

\* a call of d that passes the first k parameters positionally, leaves the
\* parameters of omitted at their defaults and passes the others by keyword
WrapperCall(d, k, omitted) ==
    [args |-> [i \in 1..k |-> d.sample[i]],
     kwargs |->
        LET later == SelectSeq([i \in DOMAIN d.f.params |-> i],
                               LAMBDA i : i > k /\ d.f.params[i].name \notin omitted)
        IN [j \in DOMAIN later |->
               <<d.f.params[later[j]].name, d.sample[later[j]]>>]]

\* the calls with those values that the signature of d admits; the
\* receiver of a method is passed positionally, as the instance does
WrapperCalls(d) ==
    {c \in {WrapperCall(d, k, omitted) :
               k \in (IF Tool_is_method(d.f) THEN 1 ELSE 0)..Len(d.f.params),
               omitted \in SUBSET {d.f.params[i].name : i \in DOMAIN d.f.params}} :
        ~Bind(d, c.args, c.kwargs).raised}

\* annotations whose type2schema call is followed frame by frame: records
\* that refer to themselves directly, through a list and through an
\* optional, and annotations that do not refer to themselves
SelfReferential ==
    {Cls("Linked"), Cls("Node"), Cls("Tree"),
     Generic("list", <<Cls("Node")>>), Optional(Cls("Tree"))}

StackAnnotations ==
    SelfReferential
    \cup {Cls("int"), Cls("Address"), Cls("User"), Cls("Team"),
          Optional(Cls("User")),
          Union(<<Cls("int"), Cls("Address"), NoneType>>),
          Generic("list", <<Generic("set", <<Cls("int")>>)>>),
          Annotated(Generic("list", <<Cls("Blob")>>),
                    <<FieldInfo("Blobs", << >>)>>),
          Annotated(Cls("int"),
                    <<FieldInfo("", ConstraintList({"ge", "le"}))>>)}

(***************************************************************************)
(* The state machine: one action per entry point.  op is the entry point   *)
(* called last, input the argument of the builder call, schema what the    *)
(* builder returned or raised, response the candidate handed to a          *)
(* response validator, verdict what the linter or the response validator   *)
(* answered.  These entry points are pure and keep nothing between calls,  *)
(* so a behaviour is one builder call, optionally followed by the linter,  *)
(* process_schema or a response validator on the schema it returned.       *)
(* Two behaviours have more steps: a type2schema call followed frame by    *)
(* frame (frames is its call stack), and a Tool instance that decorates    *)
(* functions and one of whose wrappers is then called (tool is the         *)
(* instance, wrappers the wrappers it returned, called the call).          *)
(***************************************************************************)
Init ==
    /\ op = "none"
    /\ input = << >>
    /\ schema = NotCalled
    /\ response = << >>
    /\ verdict = NotCalled
    /\ frames = << >>
    /\ tool = [name |-> NoneVal, description |-> NoneVal, schema |-> NoneVal,
               input_model |-> NotCalled]
    /\ wrappers = << >>
    /\ called = NotCalled

CallType2Schema ==
    \E a \in Annotations :
        /\ op = "none"
        /\ op' = "type2schema"
        /\ UNCHANGED machines
        /\ input' = a
        /\ schema' = type2schema(a)
        /\ verdict' = NotCalled
        /\ UNCHANGED response

CallGenerateFunctionSchema ==
    \E c \in Calls :
        /\ op = "none"
        /\ op' = "generate_function_schema"
        /\ UNCHANGED machines
        /\ input' = c
        /\ schema' = generate_function_schema(c)
        /\ verdict' = NotCalled
        /\ UNCHANGED response

CallTool ==
    \E c \in ToolCalls :
        /\ op = "none"
        /\ op' = "Tool"
        /\ UNCHANGED machines
        /\ input' = c
        /\ schema' = Tool__call__(c.name, c.description, c.f)
        /\ verdict' = NotCalled
        /\ UNCHANGED response

CallValidateSchema ==
    /\ op = "generate_function_schema"
    /\ ~schema.raised
    /\ op' = "validate_schema"
    /\ UNCHANGED machines
    /\ verdict' = validate_schema(SchemaValue(schema.value))
    /\ UNCHANGED <<input, schema, response>>

CallValidateLlmResponse ==
    \E r \in Responses :
        /\ op = "generate_function_schema"
        /\ ~schema.raised
        /\ Validated(input)
        /\ Answers(r, input.f)
        /\ op' = "validate_llm_response"
        /\ UNCHANGED machines
        /\ response' = r
        /\ verdict' = validate_llm_response(r, schema.value)
        /\ UNCHANGED <<input, schema>>

CallToolValidateResponse ==
    \E r \in Responses :
        /\ op \in {"generate_function_schema", "Tool"}
        /\ ~schema.raised
        /\ Validated(input)
        /\ Answers(r, input.f)
        /\ op' = "Tool.validate_response"
        /\ UNCHANGED machines
        /\ response' = r
        /\ verdict' = Tool_validate_response(r, schema.value)
        /\ UNCHANGED <<input, schema>>

\* validate_schema on a mapping that no builder made
CallValidateSchemaOfMapping ==
    \E m \in SchemaMappings :
        /\ op = "none"
        /\ op' = "validate_schema(mapping)"
        /\ UNCHANGED machines
        /\ input' = m
        /\ verdict' = validate_schema(m)
        /\ UNCHANGED <<schema, response>>

\* process_schema(schema) on the schema the builder returned, as
\* test_list_of_objects calls it
CallProcessSchema ==
    /\ op = "generate_function_schema"
    /\ ~schema.raised
    /\ op' = "process_schema"
    /\ UNCHANGED machines
    /\ schema' = Returned(process_schema_assigned(schema.value))
    /\ verdict' = Returned(process_schema(schema.value))
    /\ UNCHANGED <<input, response>>

\* process_schema(schema["function"]["parameters"]): the call on the node
\* that has the "properties" key; the schema is changed in place
CallProcessSchemaOfParameters ==
    /\ op = "generate_function_schema"
    /\ ~schema.raised
    /\ op' = "process_schema(parameters)"
    /\ UNCHANGED machines
    /\ schema' =
          Returned(Put(schema.value, "function",
                       Put(Get(schema.value, "function"), "parameters",
                           process_schema_assigned(
                               Get(Get(schema.value, "function"),
                                   "parameters")))))
    /\ verdict' =
          Returned(process_schema(Get(Get(schema.value, "function"),
                                      "parameters")))
    /\ UNCHANGED <<input, response>>

\* type2schema(a) is called: its first frame is on the stack
EnterType2Schema ==
    \E a \in StackAnnotations :
        /\ op = "none"
        /\ op' = "type2schema(frames)"
        /\ input' = a
        /\ frames' = <<Frame(a)>>
        /\ UNCHANGED <<schema, response, verdict>>
        /\ UNCHANGED <<tool, wrappers, called>>

Top == frames[Len(frames)]

\* the top activation makes its next recursive call
Type2SchemaCall ==
    /\ op = "type2schema(frames)"
    /\ frames # << >>
    /\ Pending(Top)
    /\ Len(frames) < RecursionLimit
    /\ frames' =
          Append(frames,
                 Frame(Children(extract_annotated_type(Top.annotation))
                           [Len(Top.built) + 1]))
    /\ UNCHANGED <<op, input, schema, response, verdict>>
    /\ UNCHANGED <<tool, wrappers, called>>

\* the call that would exceed the recursion limit raises RecursionError,
\* which no activation catches
Type2SchemaRecursionError ==
    /\ op = "type2schema(frames)"
    /\ frames # << >>
    /\ Pending(Top)
    /\ Len(frames) = RecursionLimit
    /\ frames' = << >>
    /\ schema' = Raised("RecursionError")
    /\ UNCHANGED <<op, input, response, verdict>>
    /\ UNCHANGED <<tool, wrappers, called>>

\* return schema: the caller goes on with the node, the first caller gets it
Type2SchemaReturn ==
    /\ op = "type2schema(frames)"
    /\ frames # << >>
    /\ ~Pending(Top)
    /\ ~FrameResult(Top).raised
    /\ IF Len(frames) = 1
       THEN /\ frames' = << >>
            /\ schema' = FrameResult(Top)
       ELSE /\ frames' =
                  Append(SubSeq(frames, 1, Len(frames) - 2),
                         [frames[Len(frames) - 1] EXCEPT
                             !.built = Append(@, FrameResult(Top))])
            /\ UNCHANGED schema
    /\ UNCHANGED <<op, input, response, verdict>>
    /\ UNCHANGED <<tool, wrappers, called>>

\* raise TypeError(f"Unsupported type: {base_type}"), which no activation
\* catches
Type2SchemaRaise ==
    /\ op = "type2schema(frames)"
    /\ frames # << >>
    /\ ~Pending(Top)
    /\ FrameResult(Top).raised
    /\ frames' = << >>
    /\ schema' = FrameResult(Top)
    /\ UNCHANGED <<op, input, response, verdict>>
    /\ UNCHANGED <<tool, wrappers, called>>

\* decorator = tool(name=None, description=None) has been made; decorator(f)
\* builds f.schema and the input model, stores the model on the instance
\* and returns the wrapper
Decorate ==
    \E d \in ToolFunctions :
        /\ op \in {"none", "Tool()(f)"}
        /\ Len(wrappers) < MaxDecorations
        /\ ~Tool__call__(tool.name, tool.description, d.f).raised
        /\ op' = "Tool()(f)"
        /\ tool' =
              [tool EXCEPT !.input_model =
                  create_pydantic_model_from_schema(
                      Tool__call__(tool.name, tool.description, d.f).value)]
        /\ wrappers' =
              Append(wrappers,
                     [d |-> d,
                      schema |-> Tool__call__(tool.name, tool.description,
                                              d.f).value])
        /\ UNCHANGED <<input, schema, response, verdict, frames, called>>

\* one of the wrappers the instance returned is called
CallWrapper ==
    \E i \in DOMAIN wrappers :
        \E c \in WrapperCalls(wrappers[i].d) :
            /\ op = "Tool()(f)"
            /\ op' = "wrapper"
            /\ called' =
                  [wrapper |-> i, args |-> c.args, kwargs |-> c.kwargs,
                   outcome |-> wrapper(tool.input_model.value, wrappers[i].d,
                                       c.args, c.kwargs)]
            /\ UNCHANGED <<input, schema, response, verdict, frames, tool,
                           wrappers>>

Next ==
    \/ Decorate
    \/ CallWrapper
    \/ EnterType2Schema
    \/ Type2SchemaCall
    \/ Type2SchemaRecursionError
    \/ Type2SchemaReturn
    \/ Type2SchemaRaise
    \/ CallValidateSchemaOfMapping
    \/ CallProcessSchema
    \/ CallProcessSchemaOfParameters
    \/ CallType2Schema
    \/ CallGenerateFunctionSchema
    \/ CallTool
    \/ CallValidateSchema
    \/ CallValidateLlmResponse
    \/ CallToolValidateResponse

Spec == Init /\ [][Next]_vars

(***************************************************************************)
(* Vocabulary of the properties.                                           *)
(***************************************************************************)
Range(q) == {q[i] : i \in DOMAIN q}

\* the node and every node nested inside it: record field nodes, array
\* items nodes and oneOf variant nodes
RECURSIVE NodesOf(_)
NodesOf(node) ==
    {node}
    \cup (IF Has(node, "properties")
          THEN UNION {NodesOf(kv[2]) : kv \in Range(Get(node, "properties"))}
          ELSE {})
    \cup (IF Has(node, "items") THEN NodesOf(Get(node, "items")) ELSE {})
    \cup (IF Has(node, "oneOf")
          THEN UNION {NodesOf(v) : v \in Range(Get(node, "oneOf"))}
          ELSE {})

\* the recognized descriptor shapes: primitive, enum, literal set, optional,
\* union, list, record - at every nesting depth
RECURSIVE Supported(_)
Supported(a) ==
    CASE a.shape = "Annotated" -> Supported(a.base)
      [] a.shape = "Literal" -> TRUE
      [] a.shape = "class" ->
            \/ a.cls \in {"bool", "str", "int", "float"}
            \/ issubclass(a.cls, "Enum")
            \/ /\ issubclass(a.cls, "BaseModel")
               /\ \A d \in Range(ClassTable(a.cls).fields) :
                     Supported(d.annotation)
      [] a.shape = "generic" ->
            a.origin = "list" /\ Supported(a.args[1])
      [] a.shape = "Union" ->
            IF Len(a.args) = 2 /\ NoneType \in Range(a.args)
            THEN \A x \in Range(a.args) \ {NoneType} : Supported(x)
            ELSE \A x \in Range(a.args) : Supported(x)
      [] OTHER -> FALSE

BuilderReturned == op = "type2schema" /\ ~schema.raised

\* the nodes of the parameters of a generated function schema
ParameterNodes ==
    IF op \in {"generate_function_schema", "validate_schema"} /\ ~schema.raised
    THEN {kv[2] : kv \in Range(Get(Get(Get(schema.value, "function"),
                                       "parameters"), "properties"))}
    ELSE {}

\* every node the builder emitted in the current state
EmittedNodes ==
    IF BuilderReturned THEN NodesOf(schema.value)
    ELSE UNION {NodesOf(n) : n \in ParameterNodes}

(***************************************************************************)
(* C1: type2schema raises the unsupported-type error for every descriptor  *)
(* that is not built from the recognized shapes, at any nesting depth; it  *)
(* never returns a node for one.                                           *)
(***************************************************************************)
C1_UnsupportedRaises ==
    (op = "type2schema" /\ ~Supported(input))
        => (schema.raised /\ schema.exc = "TypeError")

(***************************************************************************)
(* C2: every node type2schema returns, and every node nested in it, has    *)
(* exactly one of the keys oneOf and type.                                 *)
(***************************************************************************)
C2_OneOfXorType ==
    BuilderReturned =>
        \A n \in NodesOf(schema.value) : Has(n, "oneOf") # Has(n, "type")

(***************************************************************************)
(* C3: round trip - the function schema generated for a callable whose     *)
(* parameter descriptors are built from the supported shapes makes         *)
(* validate_schema return true.                                            *)
(***************************************************************************)
SupportedCall(c) ==
    \A p \in Range(c.f.params) :
        p.annotation = SignatureEmpty \/ Supported(p.annotation)

C3_RoundTrip ==
    (op = "validate_schema" /\ SupportedCall(input))
        => verdict = Returned(TRUE)

(***************************************************************************)
(* C4: a primitive descriptor yields the node type fixed by the mapping    *)
(* boolean, string, integer, number and none of the keys enum, items,      *)
(* properties, oneOf; a boolean descriptor never yields "integer".         *)
(***************************************************************************)
PrimitiveName(c) ==
    CASE c = "bool" -> "boolean"
      [] c = "str" -> "string"
      [] c = "int" -> "integer"
      [] c = "float" -> "number"

IsPrimitiveInput ==
    /\ op = "type2schema"
    /\ extract_annotated_type(input).shape = "class"
    /\ extract_annotated_type(input).cls \in {"bool", "str", "int", "float"}

C4_PrimitiveMapping ==
    IsPrimitiveInput =>
        /\ ~schema.raised
        /\ Has(schema.value, "type")
        /\ Get(schema.value, "type")
               = PrimitiveName(extract_annotated_type(input).cls)
        /\ Keys(schema.value) \cap {"enum", "items", "properties", "oneOf"} = {}

C4_Witness ==
    /\ op = "type2schema"
    /\ input = Cls("bool")
    /\ schema = Returned(<< <<"type", "boolean">> >>)

(***************************************************************************)
(* C5: a union with more than one non-null variant, or more than two       *)
(* variants, yields a node with a oneOf list holding the node built for    *)
(* each variant, in declared order, and no type key.                       *)
(***************************************************************************)
IsGeneralUnion(a) ==
    /\ a.shape = "Union"
    /\ \/ Cardinality({i \in DOMAIN a.args : a.args[i] # NoneType}) > 1
       \/ Len(a.args) > 2

C5_GeneralUnion ==
    (op = "type2schema" /\ IsGeneralUnion(extract_annotated_type(input))) =>
        IF \E x \in Range(extract_annotated_type(input).args) :
               type2schema(x).raised
        THEN schema.raised
        ELSE /\ ~schema.raised
             /\ ~Has(schema.value, "type")
             /\ Has(schema.value, "oneOf")
             /\ Len(Get(schema.value, "oneOf"))
                    = Len(extract_annotated_type(input).args)
             /\ \A i \in DOMAIN extract_annotated_type(input).args :
                    Get(schema.value, "oneOf")[i]
                        = type2schema(extract_annotated_type(input).args[i]).value

C5_Witness ==
    /\ op = "type2schema"
    /\ input = Union(<<Cls("int"), Cls("User"), NoneType>>)
    /\ ~schema.raised
    /\ Len(Get(schema.value, "oneOf")) = 3
    /\ Get(schema.value, "oneOf")[1] = << <<"type", "integer">> >>
    /\ Get(Get(schema.value, "oneOf")[2], "type") = "object"

(***************************************************************************)
(* C6: an Optional descriptor yields the node built for the inner          *)
(* descriptor with nullable: true added; nullable: true only appears on a  *)
(* node that also has a type key, and an Optional never yields a node      *)
(* with oneOf.                                                             *)
(***************************************************************************)
IsOptionalDescriptor(a) ==
    /\ a.shape = "Union"
    /\ Len(a.args) = 2
    /\ NoneType \in Range(a.args)

InnerOf(a) == CHOOSE x \in Range(a.args) : x # NoneType

C6_OptionalNullable ==
    /\ (BuilderReturned /\ IsOptionalDescriptor(input)) =>
          /\ schema.value = Put(type2schema(InnerOf(input)).value,
                                "nullable", TRUE)
          /\ ~Has(schema.value, "oneOf")
    /\ \A n \in EmittedNodes :
          Has(n, "nullable") => (Get(n, "nullable") = TRUE /\ Has(n, "type"))

(***************************************************************************)
(* C7: an enumeration or literal-set descriptor yields type "string" and   *)
(* an enum list of the members' underlying values in declaration order,    *)
(* and every entry of every emitted enum list is a string.                 *)
(***************************************************************************)
UnderlyingValues(a) ==
    IF a.shape = "Literal" THEN a.args
    ELSE [i \in DOMAIN ClassTable(a.cls).members |->
             ClassTable(a.cls).members[i].value]

IsEnumeration(a) ==
    \/ a.shape = "Literal"
    \/ a.shape = "class" /\ issubclass(a.cls, "Enum")

C7_EnumValues ==
    /\ (op = "type2schema" /\ IsEnumeration(extract_annotated_type(input))) =>
          /\ ~schema.raised
          /\ Has(schema.value, "type")
          /\ Get(schema.value, "type") = "string"
          /\ Has(schema.value, "enum")
          /\ Get(schema.value, "enum")
                 = UnderlyingValues(extract_annotated_type(input))
    /\ \A n \in EmittedNodes :
          Has(n, "enum") => \A v \in Range(Get(n, "enum")) : v.t = "str"

(***************************************************************************)
(* C8: the numeric bound annotations of a descriptor appear on its node as *)
(* gt -> exclusiveMinimum, ge -> minimum, lt -> exclusiveMaximum,          *)
(* le -> maximum with the annotated values, any subset together, and no    *)
(* bound key appears for an absent annotation - for a top-level descriptor *)
(* and for a field declared inside a record.                               *)
(***************************************************************************)
ExpectedBoundKey(attr) ==
    CASE attr = "gt" -> "exclusiveMinimum"
      [] attr = "ge" -> "minimum"
      [] attr = "lt" -> "exclusiveMaximum"
      [] attr = "le" -> "maximum"

\* the bounds declared on annotation a are exactly the bound keys of node
BoundsMatch(node, a) ==
    \A attr \in {"gt", "ge", "lt", "le"} :
        LET declared == {c \in Range(extract_annotation_metadata(a).metadata) :
                            c.attr = attr}
        IN IF declared = {}
           THEN ~Has(node, ExpectedBoundKey(attr))
           ELSE /\ Has(node, ExpectedBoundKey(attr))
                /\ \E c \in declared :
                      Get(node, ExpectedBoundKey(attr)) = c.value

IsNumeric(a) ==
    /\ extract_annotated_type(a).shape = "class"
    /\ extract_annotated_type(a).cls \in {"int", "float"}

C8_TopLevelBounds ==
    (op = "type2schema" /\ IsNumeric(input)) =>
        (~schema.raised /\ BoundsMatch(schema.value, input))

C8_Bounds ==
    /\ C8_TopLevelBounds
    /\ (BuilderReturned /\ input.shape = "class"
            /\ issubclass(input.cls, "BaseModel")) =>
          \A i \in DOMAIN ClassTable(input.cls).fields :
              IsNumeric(ClassTable(input.cls).fields[i].annotation) =>
                  BoundsMatch(Get(schema.value, "properties")[i][2],
                              ClassTable(input.cls).fields[i].annotation)

(***************************************************************************)
(* C9: a record descriptor yields type "object" with one property per      *)
(* field, in declaration order, each the node built for the field's        *)
(* descriptor with the field's description (or its name) merged in; a list *)
(* descriptor yields type "array" with items the node built for the        *)
(* element descriptor; nesting is preserved at every depth.                *)
(***************************************************************************)
IsRecord(a) == a.shape = "class" /\ issubclass(a.cls, "BaseModel")

IsList(a) == a.shape = "generic" /\ a.origin = "list"

\* the description declared with a field, "" when there is none
DeclaredDescription(decl) ==
    IF decl.annotation.shape = "Annotated"
    THEN LET fis == {m \in Range(decl.annotation.meta) : m.kind = "FieldInfo"}
         IN IF fis = {} THEN "" ELSE (CHOOSE m \in fis : TRUE).description
    ELSE ""

\* the pieces of a field's declaration: its type without the attached
\* metadata, and the description it ends up with
FieldType(decl) ==
    IF decl.annotation.shape = "Annotated"
    THEN decl.annotation.base ELSE decl.annotation

FieldDescription(decl) ==
    IF DeclaredDescription(decl) # "" THEN DeclaredDescription(decl)
    ELSE decl.name

RecordCase ==
    (op = "type2schema" /\ IsRecord(input)) =>
        IF \E d \in Range(ClassTable(input.cls).fields) :
               type2schema(FieldType(d)).raised
        THEN schema.raised
        ELSE /\ ~schema.raised
             /\ Get(schema.value, "type") = "object"
             /\ ~Has(schema.value, "oneOf")
             /\ Len(Get(schema.value, "properties"))
                    = Len(ClassTable(input.cls).fields)
             /\ \A i \in DOMAIN ClassTable(input.cls).fields :
                   /\ Get(schema.value, "properties")[i][1]
                          = ClassTable(input.cls).fields[i].name
                   /\ Get(schema.value, "properties")[i][2]
                          = Put(type2schema(
                                    FieldType(ClassTable(input.cls).fields[i])).value,
                                "description",
                                FieldDescription(ClassTable(input.cls).fields[i]))

ListCase ==
    (op = "type2schema" /\ IsList(input)) =>
        IF type2schema(input.args[1]).raised
        THEN schema.raised
        ELSE schema = Returned(<< <<"type", "array">>,
                                  <<"items", type2schema(input.args[1]).value>> >>)

\* class Address, written out
AddressNode ==
    << <<"type", "object">>,
       <<"properties",
         << <<"street", << <<"type", "string">>,
                           <<"description", "The street address">> >> >>,
            <<"zip_code", << <<"type", "string">>,
                             <<"description", "zip_code">> >> >> >> >>,
       <<"description", "">> >>

ConcreteCase ==
    /\ (op = "type2schema" /\ input = Cls("Address")) =>
          schema = Returned(AddressNode)
    /\ (op = "type2schema" /\ input = Generic("list", <<Cls("Address")>>)) =>
          schema = Returned(<< <<"type", "array">>, <<"items", AddressNode>> >>)

Generated ==
    op \in {"generate_function_schema", "validate_schema"} /\ ~schema.raised

\* the parameters that get a node: annotated and not a dropped receiver
SchemaParams ==
    SelectSeq(input.f.params,
              LAMBDA p : /\ p.annotation # SignatureEmpty
                         /\ ~(input.is_method /\ p.name \in {"self", "cls"}))

ParameterDescriptions ==
    Generated =>
        LET props == Get(Get(Get(schema.value, "function"), "parameters"),
                         "properties")
        IN /\ Len(props) = Len(SchemaParams)
           /\ \A i \in DOMAIN props :
                 /\ props[i][1] = SchemaParams[i].name
                 /\ Has(props[i][2], "description")
                 /\ Get(props[i][2], "description")
                        = FieldDescription(SchemaParams[i])
                 /\ Get(props[i][2], "description") # ""

\* the record field nodes inside the nodes of S, at every depth
FieldNodesIn(S) ==
    UNION {{kv[2] : kv \in Range(Get(n, "properties"))} :
              n \in {m \in S : Has(m, "properties")}}

\* the array items nodes and oneOf variant nodes inside the nodes of S
ItemAndVariantNodesIn(S) ==
    {Get(n, "items") : n \in {m \in S : Has(m, "items")}}
    \cup UNION {Range(Get(n, "oneOf")) : n \in {m \in S : Has(m, "oneOf")}}

FieldDescriptions ==
    /\ \A n \in FieldNodesIn(EmittedNodes) :
          Has(n, "description") /\ Get(n, "description") # ""
    /\ (op = "type2schema" /\ IsRecord(input) /\ ~schema.raised) =>
          \A i \in DOMAIN ClassTable(input.cls).fields :
              Get(Get(schema.value, "properties")[i][2], "description")
                  = FieldDescription(ClassTable(input.cls).fields[i])

Parameters == Get(Get(schema.value, "function"), "parameters")

Properties == Get(Parameters, "properties")

Required == Get(Parameters, "required")

NamesOf(params) == [i \in DOMAIN params |-> params[i].name]

\* the declared parameters without the implicit leading receiver of a method
DeclaredParams(params, is_method) ==
    IF is_method /\ params # << >> /\ params[1].name \in {"self", "cls"}
    THEN Tail(params)
    ELSE params

(***************************************************************************)
(* C11: in every function schema generate_function_schema returns,         *)
(* required holds exactly the names of the declared parameters without     *)
(* default, in declaration order, and every name in required is a key of   *)
(* properties, whatever mix of annotated and unannotated parameters and    *)
(* whatever is_method.                                                     *)
(***************************************************************************)
C11_RequiredExact ==
    (op = "generate_function_schema" /\ ~schema.raised) =>
        /\ Required
               = NamesOf(SelectSeq(DeclaredParams(input.f.params,
                                                  input.is_method),
                                   LAMBDA p : ~p.default.has))
        /\ \A i \in DOMAIN Required : Has(Properties, Required[i])

(***************************************************************************)
(* C12: properties has one node per declared parameter, in declaration     *)
(* order; only the implicit leading receiver of a method is left out, and  *)
(* no other parameter is dropped for its name or position, whether the     *)
(* schema comes from generate_function_schema or from the Tool decorator   *)
(* (which takes a leading self or cls to be the receiver).                 *)
(***************************************************************************)
C12_OneNodePerParameter ==
    /\ (op = "generate_function_schema" /\ ~schema.raised) =>
          [i \in DOMAIN Properties |-> Properties[i][1]]
              = NamesOf(DeclaredParams(input.f.params, input.is_method))
    /\ (op = "Tool" /\ ~schema.raised) =>
          [i \in DOMAIN Properties |-> Properties[i][1]]
              = NamesOf(DeclaredParams(input.f.params, TRUE))

(***************************************************************************)
(* C13: generate_function_schema returns {type: "function", function:      *)
(* {...}}; function.name is the explicit name when one is given and else   *)
(* the declared name, function.description the explicit description when   *)
(* one is given and else the docstring or the empty string, and            *)
(* function.async is present, with value true, exactly when the callable   *)
(* is asynchronous.                                                        *)
(***************************************************************************)
AsyncFlag ==
    /\ Has(Get(schema.value, "function"), "async") <=> input.f.is_async
    /\ Has(Get(schema.value, "function"), "async")
          => Get(Get(schema.value, "function"), "async") = TRUE

Envelope ==
    /\ [i \in DOMAIN schema.value |-> schema.value[i][1]]
           = <<"type", "function">>
    /\ Get(schema.value, "type") = "function"

C13_Assembly ==
    (op = "generate_function_schema" /\ ~schema.raised) =>
        /\ Envelope
        /\ Get(Get(schema.value, "function"), "name")
               = IF input.name # NoneVal THEN input.name.s ELSE input.f.name
        /\ Get(Get(schema.value, "function"), "description")
               = IF input.description # NoneVal
                 THEN input.description.s ELSE input.f.doc
        /\ AsyncFlag

\* amended: an explicit name or description counts only when it is not the
\* empty string
C13_AssemblyNonEmpty ==
    (op = "generate_function_schema" /\ ~schema.raised) =>
        /\ Envelope
        /\ Get(Get(schema.value, "function"), "name")
               = IF input.name \notin {NoneVal, StrVal("")}
                 THEN input.name.s ELSE input.f.name
        /\ Get(Get(schema.value, "function"), "description")
               = IF input.description \notin {NoneVal, StrVal("")}
                 THEN input.description.s ELSE input.f.doc
        /\ AsyncFlag

C13_Witness ==
    /\ op = "generate_function_schema"
    /\ input.f.is_async
    /\ input.f.doc = "Does g"
    /\ input.name = StrVal("")
    /\ ~schema.raised
    /\ Get(Get(schema.value, "function"), "name") = "g"
    /\ Get(Get(schema.value, "function"), "description") = "Does g"
    /\ Get(Get(schema.value, "function"), "async") = TRUE

(***************************************************************************)
(* Vocabulary of the properties about validate_llm_response: what the      *)
(* specified validator demands of a value, node by node.                   *)
(***************************************************************************)
\* validate_llm_response was called on the schema in schema and the
\* candidate in response
ResponseChecked == op = "validate_llm_response"

Succeeded == ~verdict.raised /\ verdict.value[1] = TRUE

Failed == ~verdict.raised /\ verdict.value[1] = FALSE

\* a failure with a violation located at property p (or below it)
FailedAt(p) ==
    /\ Failed
    /\ \E i \in DOMAIN verdict.value[2] :
          /\ verdict.value[2][i].loc # << >>
          /\ verdict.value[2][i].loc[1] = p

\* the declared properties the candidate supplies a value for
Supplied ==
    IF response.t = "dict"
    THEN {i \in DOMAIN Properties : Has(response.items, Properties[i][1])}
    ELSE {}

SuppliedValue(i) == Get(response.items, Properties[i][1])

\* the JSON type of a value is the node type t
TypeMatches(t, v) ==
    CASE t = "string" -> v.t = "str"
      [] t = "integer" -> v.t = "int"
      [] t = "number" -> v.t \in {"int", "float"}
      [] t = "boolean" -> v.t = "bool"
      [] t = "array" -> v.t = "list"
      [] t = "object" -> v.t = "dict"
      [] OTHER -> FALSE

\* twice the number v (floats are counted in halves)
Twice(v) == IF v.t = "float" THEN v.n ELSE 2 * v.n

IsNumber(v) == v.t \in {"int", "float"}

\* the number v breaks a bound key of the node
BreaksBound(node, v) ==
    \/ Has(node, "minimum") /\ Twice(v) < 2 * Get(node, "minimum")
    \/ Has(node, "maximum") /\ Twice(v) > 2 * Get(node, "maximum")
    \/ Has(node, "exclusiveMinimum")
          /\ Twice(v) <= 2 * Get(node, "exclusiveMinimum")
    \/ Has(node, "exclusiveMaximum")
          /\ Twice(v) >= 2 * Get(node, "exclusiveMaximum")

\* v is no member of the enum list of the node
OutsideEnum(node, v) ==
    /\ Has(node, "enum")
    /\ \A i \in DOMAIN Get(node, "enum") : Get(node, "enum")[i] # v

\* v has the type of the node and keeps its constraint keys
SatisfiesNode(node, v) ==
    /\ Has(node, "type")
    /\ TypeMatches(Get(node, "type"), v)
    /\ IsNumber(v) => ~BreaksBound(node, v)
    /\ ~OutsideEnum(node, v)

\* v conforms to the node and, recursively, to its items, properties and
\* variants
RECURSIVE Matches(_, _)
Matches(node, v) ==
    IF Has(node, "oneOf")
    THEN \E i \in DOMAIN Get(node, "oneOf") :
            Matches(Get(node, "oneOf")[i], v)
    ELSE IF ~Has(node, "type") THEN TRUE
    ELSE \/ /\ v = NoneVal
            /\ Has(node, "nullable")
         \/ /\ SatisfiesNode(node, v)
            /\ (Get(node, "type") = "array" /\ Has(node, "items")) =>
                  \A i \in DOMAIN v.items : Matches(Get(node, "items"), v.items[i])
            /\ (Get(node, "type") = "object" /\ Has(node, "properties")) =>
                  \A i \in DOMAIN Get(node, "properties") :
                      Has(v.items, Get(node, "properties")[i][1]) =>
                          Matches(Get(node, "properties")[i][2],
                                  Get(v.items, Get(node, "properties")[i][1]))

(***************************************************************************)
(* C14: validate_llm_response reports failure, with a violation whose      *)
(* path is the missing field, for every candidate object that lacks a      *)
(* property named in required; and it reports no missing-field violation   *)
(* for a property that is not in required.                                 *)
(***************************************************************************)
C14_MissingRequired ==
    (ResponseChecked /\ response.t = "dict") =>
        /\ \A i \in DOMAIN Required :
              ~Has(response.items, Required[i]) =>
                  /\ Failed
                  /\ \E j \in DOMAIN verdict.value[2] :
                        verdict.value[2][j].loc = <<Required[i]>>
        /\ Failed =>
              \A j \in DOMAIN verdict.value[2] :
                  verdict.value[2][j].type = "missing" =>
                      \E i \in DOMAIN Required :
                          verdict.value[2][j].loc = <<Required[i]>>

(***************************************************************************)
(* C15: validate_llm_response enforces the constraint keys of a property   *)
(* node: a number below minimum, above maximum or not strictly inside      *)
(* exclusiveMinimum/exclusiveMaximum, or a value outside the enum list,    *)
(* yields failure with a violation located at that property; a candidate   *)
(* whose values satisfy type and constraint keys of their nodes yields     *)
(* success.                                                                *)
(***************************************************************************)
C15_ConstraintsEnforced ==
    ResponseChecked =>
        /\ \A i \in Supplied :
              \/ IsNumber(SuppliedValue(i))
                    /\ BreaksBound(Properties[i][2], SuppliedValue(i))
              \/ OutsideEnum(Properties[i][2], SuppliedValue(i))
              => FailedAt(Properties[i][1])
        /\ ( /\ response.t = "dict"
             /\ \A i \in DOMAIN Required : Has(response.items, Required[i])
             /\ \A i \in DOMAIN Properties : Has(Properties[i][2], "type")
             /\ \A i \in Supplied :
                   SatisfiesNode(Properties[i][2], SuppliedValue(i)) )
           => Succeeded

(***************************************************************************)
(* C16: Tool.validate_response returns True only when the response         *)
(* conforms to the declared parameter types through every nested record;   *)
(* when a nested record lacks a field, has a field of the wrong type or    *)
(* breaks a length constraint of a text field, it returns an error string. *)
(***************************************************************************)
\* v is a value of the declared type a
RECURSIVE DeclaredConforms(_, _)
DeclaredConforms(a, v) ==
    CASE a.shape = "Annotated" ->
            /\ DeclaredConforms(a.base, v)
            /\ \A m \in Range(extract_annotation_metadata(a).metadata) :
                  CASE m.attr = "ge" -> IsNumber(v) => Twice(v) >= 2 * m.value
                    [] m.attr = "gt" -> IsNumber(v) => Twice(v) > 2 * m.value
                    [] m.attr = "le" -> IsNumber(v) => Twice(v) <= 2 * m.value
                    [] m.attr = "lt" -> IsNumber(v) => Twice(v) < 2 * m.value
                    [] OTHER -> TRUE
      [] a.shape = "Literal" -> v \in Range(a.args)
      [] a.shape = "Union" -> \E x \in Range(a.args) : DeclaredConforms(x, v)
      [] a.shape = "generic" ->
            /\ v.t = "list"
            /\ \A i \in DOMAIN v.items : DeclaredConforms(a.args[1], v.items[i])
      [] a.shape = "class" ->
            IF issubclass(a.cls, "Enum")
            THEN v \in {m.value : m \in Range(ClassTable(a.cls).members)}
            ELSE IF issubclass(a.cls, "BaseModel")
            THEN /\ v.t = "dict"
                 /\ \A d \in Range(ClassTable(a.cls).fields) :
                       /\ Has(v.items, d.name)
                       /\ DeclaredConforms(d.annotation, Get(v.items, d.name))
            ELSE CASE a.cls = "bool" -> v.t = "bool"
                   [] a.cls = "str" -> v.t = "str"
                   [] a.cls = "int" -> v.t = "int"
                   [] a.cls = "float" -> IsNumber(v)
                   [] a.cls = "dict" -> v.t = "dict"
                   [] a.cls = "NoneType" -> v = NoneVal
                   [] OTHER -> TRUE
      [] OTHER -> TRUE

\* the parameters that have a node in the schema
NodeParams ==
    {p \in Range(input.f.params) : Has(Properties, p.name)}

\* a supplied parameter holds a record (directly or in a list) that does not
\* conform to its declared record type
NestedRecordViolation ==
    /\ response.t = "dict"
    /\ \E p \in NodeParams :
          /\ Has(response.items, p.name)
          /\ \/ IsRecord(extract_annotated_type(p.annotation))
             \/ /\ IsList(extract_annotated_type(p.annotation))
                /\ IsRecord(extract_annotated_type(p.annotation).args[1])
          /\ Get(response.items, p.name).t \in {"dict", "list"}
          /\ ~DeclaredConforms(p.annotation, Get(response.items, p.name))

ResponseConforms ==
    /\ response.t = "dict"
    /\ \A p \in NodeParams :
          IF Has(response.items, p.name)
          THEN DeclaredConforms(p.annotation, Get(response.items, p.name))
          ELSE p.default.has

C16_NestedRecordsChecked ==
    op = "Tool.validate_response" =>
        /\ (~verdict.raised /\ verdict.value = BoolVal(TRUE))
              => ResponseConforms
        /\ NestedRecordViolation
              => (~verdict.raised /\ verdict.value.t = "str")

(***************************************************************************)
(* C17: for a property whose node has type "array", the validator accepts  *)
(* the empty sequence whatever items says, and rejects a sequence with a   *)
(* non-conforming element, with a violation located at that element        *)
(* (property, index) for each failing element.                             *)
(***************************************************************************)
IsArrayNode(node) == Has(node, "type") /\ Get(node, "type") = "array"

C17_ArrayElementsChecked ==
    ResponseChecked =>
        \A i \in Supplied :
            (IsArrayNode(Properties[i][2]) /\ SuppliedValue(i).t = "list") =>
                /\ SuppliedValue(i).items = << >>
                      => (~verdict.raised /\ ~FailedAt(Properties[i][1]))
                /\ \A k \in DOMAIN SuppliedValue(i).items :
                      ( /\ Has(Properties[i][2], "items")
                        /\ ~Matches(Get(Properties[i][2], "items"),
                                    SuppliedValue(i).items[k]) )
                      => /\ Failed
                         /\ \E j \in DOMAIN verdict.value[2] :
                               /\ Len(verdict.value[2][j].loc) >= 2
                               /\ verdict.value[2][j].loc[1] = Properties[i][1]
                               /\ verdict.value[2][j].loc[2] = k - 1

(***************************************************************************)
(* C18: for a property whose node is a oneOf node, validate_llm_response   *)
(* accepts the supplied value exactly when it matches at least one         *)
(* variant, and otherwise fails with a violation located at the property.  *)
(***************************************************************************)
C18_OneOfAccepted ==
    ResponseChecked =>
        \A i \in Supplied :
            Has(Properties[i][2], "oneOf") =>
                /\ ~verdict.raised
                /\ IF Matches(Properties[i][2], SuppliedValue(i))
                   THEN ~FailedAt(Properties[i][1])
                   ELSE FailedAt(Properties[i][1])

(***************************************************************************)
(* C19: the validator never silently coerces: a text or a boolean where    *)
(* the node says integer, and a number where the node says string, is      *)
(* reported as a violation; and on success every returned value equals, in *)
(* type and value, the value the candidate supplied for that property.     *)
(***************************************************************************)
IsPrimitiveNode(node, t) == Has(node, "type") /\ Get(node, "type") = t

C19_NoCoercion ==
    ResponseChecked =>
        /\ \A i \in Supplied :
              \/ /\ IsPrimitiveNode(Properties[i][2], "integer")
                 /\ SuppliedValue(i).t \in {"str", "bool"}
              \/ /\ IsPrimitiveNode(Properties[i][2], "string")
                 /\ IsNumber(SuppliedValue(i))
              => FailedAt(Properties[i][1])
        /\ Succeeded =>
              \A j \in DOMAIN verdict.value[2] :
                  Has(response.items, verdict.value[2][j][1]) =>
                      verdict.value[2][j][2]
                          = Get(response.items, verdict.value[2][j][1])

(***************************************************************************)
(* C20: validate_llm_response never raises: for every candidate, object    *)
(* or not, and every function schema the builder returns, oneOf            *)
(* properties included, it returns (True, data) or (False, violations).    *)
(***************************************************************************)
C20_NeverRaises ==
    ResponseChecked => (Succeeded \/ Failed)

(***************************************************************************)
(* C21: when a candidate object offends several properties at once, the    *)
(* failure of validate_llm_response carries one violation for each         *)
(* offending property, in property order; the violation list of a failure  *)
(* is never empty.                                                         *)
(***************************************************************************)
\* property i is offended: it is required and missing, or its supplied value
\* does not conform to its node
Offended(i) ==
    IF Has(response.items, Properties[i][1])
    THEN ~Matches(Properties[i][2], SuppliedValue(i))
    ELSE \E j \in DOMAIN Required : Required[j] = Properties[i][1]

\* the names of the offended properties, in property order
Offending ==
    LET hits == SelectSeq([i \in DOMAIN Properties |-> i],
                          LAMBDA i : Offended(i))
    IN [k \in DOMAIN hits |-> Properties[hits[k]][1]]

\* the property each reported violation is located at, in report order
ViolationPaths ==
    [j \in DOMAIN verdict.value[2] |->
        IF verdict.value[2][j].loc = << >> THEN ""
        ELSE verdict.value[2][j].loc[1]]

C21_EveryViolationReported ==
    (ResponseChecked /\ response.t = "dict" /\ ~verdict.raised) =>
        /\ Len(Offending) >= 2 => (Failed /\ ViolationPaths = Offending)
        /\ Failed => verdict.value[2] # << >>

(***************************************************************************)
(* C22: open world.  Properties of the candidate that the schema does not  *)
(* declare never change the verdict of validate_llm_response or of         *)
(* Tool.validate_response: the verdict is the one the candidate without    *)
(* them gets, so a valid candidate stays valid and no violation is         *)
(* reported for them.                                                      *)
(***************************************************************************)
\* the candidate without the properties the schema does not declare
DeclaredPart(r) ==
    DictVal(SelectSeq(r.items, LAMBDA kv : kv[1] \in Keys(Properties)))

HasUndeclared(r) == \E i \in DOMAIN r.items : r.items[i][1] \notin Keys(Properties)

C22_OpenWorld ==
    /\ (ResponseChecked /\ response.t = "dict") =>
           verdict = validate_llm_response(DeclaredPart(response), schema.value)
    /\ (op = "Tool.validate_response" /\ response.t = "dict") =>
           verdict = Tool_validate_response(DeclaredPart(response), schema.value)

C22_Witness ==
    /\ ResponseChecked
    /\ response.t = "dict"
    /\ HasUndeclared(response)
    /\ Properties # << >>
    /\ Succeeded

\* an undeclared property beside an offending declared one: the failure
\* names the declared one only
C22_WitnessFailure ==
    /\ ResponseChecked
    /\ response.t = "dict"
    /\ HasUndeclared(response)
    /\ Failed
    /\ ViolationPaths = <<"value">>

(***************************************************************************)
(* C25: process_schema applied to a function schema returns the schema     *)
(* with the same keys and values at every level and, at every level that   *)
(* has a description key (the function object, each parameter node, the    *)
(* field nodes of nested records, the items nodes), description as first   *)
(* key and the other keys in their relative order.                         *)
(***************************************************************************)
RECURSIVE Normalized(_)

\* the value under key k with every level below it normalized
NormalizedUnder(k, v) ==
    CASE k \in {"function", "parameters", "items"} -> Normalized(v)
      [] k = "properties" -> [i \in DOMAIN v |-> <<v[i][1], Normalized(v[i][2])>>]
      [] OTHER -> v

\* d with description first at every level and nothing else changed
Normalized(d) ==
    reorder_keys([i \in DOMAIN d |-> <<d[i][1], NormalizedUnder(d[i][1], d[i][2])>>])

C25_DescriptionFirst ==
    op = "process_schema" =>
        verdict.value = Normalized(generate_function_schema(input).value)

\* called on the parameters node, the levels below it are reordered
C25_ParametersNodeReordered ==
    op = "process_schema(parameters)" =>
        verdict.value
            = Normalized(Get(Get(generate_function_schema(input).value,
                                 "function"), "parameters"))

(***************************************************************************)
(* C29: the three copies of type2schema (llm_codebridge/core.py,           *)
(* llm_codebridge/schema_generation.py, oai_tool/schema_generation.py)     *)
(* are equivalent: on every descriptor they return the same node or raise  *)
(* the same error.                                                         *)
(***************************************************************************)
C29_CopiesEquivalent ==
    op = "type2schema" =>
        /\ schema = type2schema(input)
        /\ schema_generation_type2schema(input) = schema
        /\ oai_tool_type2schema(input) = schema

(***************************************************************************)
(* C23: validate_schema reports every shape failure by returning False     *)
(* and never by raising: for every mapping given as schema the call        *)
(* returns a boolean.                                                      *)
(***************************************************************************)
C23_LintNeverRaises ==
    op \in {"validate_schema", "validate_schema(mapping)"} =>
        /\ ~verdict.raised
        /\ verdict.value \in BOOLEAN

(***************************************************************************)
(* C24: validate_schema returns True exactly when the top level has the    *)
(* keys type and function; function has name, description and parameters;  *)
(* parameters.type is "object", properties is a mapping and required a     *)
(* sequence; and, recursively through nested object properties, every      *)
(* property either has a oneOf whose options each carry a type, or has a   *)
(* type plus a description, an object-typed one with a nested properties   *)
(* mapping and an array-typed one with an items node that has a type.      *)
(***************************************************************************)
\* x is a mapping that has the key k
Carries(x, k) == x.t = "dict" /\ Has(x.items, k)

RECURSIVE PropertiesWellShaped(_)

\* the condition on one property
PropertyWellShaped(d) ==
    \/ /\ Carries(d, "oneOf")
       /\ Get(d.items, "oneOf").t = "list"
       /\ \A i \in DOMAIN Get(d.items, "oneOf").items :
             Carries(Get(d.items, "oneOf").items[i], "type")
    \/ /\ Carries(d, "type")
       /\ ~Has(d.items, "oneOf")
       /\ Has(d.items, "description")
       /\ Get(d.items, "type") = StrVal("object") =>
             /\ IsDictAt(d, "properties")
             /\ PropertiesWellShaped(Get(d.items, "properties"))
       /\ Get(d.items, "type") = StrVal("array") =>
             /\ IsDictAt(d, "items")
             /\ Has(Get(d.items, "items").items, "type")

PropertiesWellShaped(properties) ==
    \A i \in DOMAIN properties.items :
        PropertyWellShaped(properties.items[i][2])

WellShaped(s) ==
    /\ {"type", "function"} \subseteq Keys(s.items)
    /\ Get(s.items, "function").t = "dict"
    /\ {"name", "description", "parameters"}
          \subseteq Keys(Get(s.items, "function").items)
    /\ Carries(Get(Get(s.items, "function").items, "parameters"), "type")
    /\ Get(Get(Get(s.items, "function").items, "parameters").items, "type")
          = StrVal("object")
    /\ IsDictAt(Get(Get(s.items, "function").items, "parameters"), "properties")
    /\ Carries(Get(Get(s.items, "function").items, "parameters"), "required")
    /\ Get(Get(Get(s.items, "function").items, "parameters").items,
           "required").t = "list"
    /\ PropertiesWellShaped(
          Get(Get(Get(s.items, "function").items, "parameters").items,
              "properties"))

C24_LintExact ==
    /\ op = "validate_schema(mapping)" =>
           (verdict = Returned(TRUE) <=> WellShaped(input))
    /\ op = "validate_schema" =>
           (verdict = Returned(TRUE) <=> WellShaped(SchemaValue(schema.value)))

(***************************************************************************)
(* Termination of type2schema.                                             *)
(***************************************************************************)
\* the nesting of an annotation as it is declared: one level for the
\* annotation, one more for every level of list, optional, union or record
\* field inside it; a record met again inside its own declaration is a
\* reference and counts one level
RECURSIVE DeclaredDepthFrom(_, _)
DeclaredDepthFrom(annotation, seen) ==
    LET base_type == extract_annotated_type(annotation)
        kids == Children(base_type)
        inside == IF base_type.shape = "class"
                  THEN seen \cup {base_type.cls}
                  ELSE seen
    IN IF kids = << >> \/ (base_type.shape = "class" /\ base_type.cls \in seen)
       THEN 1
       ELSE LET depths == {DeclaredDepthFrom(kids[i], inside) : i \in DOMAIN kids}
            IN 1 + CHOOSE d \in depths : \A e \in depths : e <= d

DeclaredDepth(annotation) == DeclaredDepthFrom(annotation, {})

Type2SchemaDone == op = "type2schema(frames)" /\ frames = << >>

\* C27: type2schema never has more frames on the stack than the annotation
\* it was called with has declared levels of nesting, and the call ends by
\* returning a node or by raising the unsupported-type error (TypeError),
\* also for a record that refers to itself directly, through a list or
\* through an optional
C27_TerminatesWithinDeclaredDepth ==
    op = "type2schema(frames)" =>
        /\ Len(frames) <= DeclaredDepth(input)
        /\ Type2SchemaDone => (~schema.raised \/ schema.exc = "TypeError")

(***************************************************************************)
(* The wrappers of a Tool instance.                                        *)
(***************************************************************************)
WrapperCalled == op = "wrapper"

\* the decorated function the called wrapper belongs to
CalledFunction == wrappers[called.wrapper].d

\* the input model built from the schema of the called wrapper's function
OwnModel == create_pydantic_model_from_schema(wrappers[called.wrapper].schema).value

\* C26: every call of a wrapper whose arguments have the declared types,
\* passed positionally or by keyword, with defaulted parameters supplied or
\* omitted, runs the underlying function once with the arguments the same
\* call of the function itself gives it, and returns its result
C26_WrapperTransparent ==
    WrapperCalled =>
        called.outcome = Invoke(CalledFunction, called.args, called.kwargs)

\* C28: a wrapper validates its arguments against the input model built
\* from the schema of its own function, whatever the Tool instance
\* decorated afterwards
C28_OwnInputModel ==
    WrapperCalled =>
        called.outcome =
            wrapper(OwnModel, CalledFunction, called.args, called.kwargs)

\* a response validator has been given null for the one parameter of
\* def f(value: Optional[...]), whose node says nullable: true
NullSupplied ==
    /\ op \in {"validate_llm_response", "Tool.validate_response"}
    /\ input.f.name = "f"
    /\ IsOptionalDescriptor(extract_annotated_type(input.f.params[1].annotation))
    /\ Has(Get(Properties, "value"), "nullable")
    /\ response = DictVal(<< <<"value", NoneVal>> >>)

\* the called wrapper validates against its own model, and the call leaves
\* a parameter declared Optional at its default of None
LeftAtNull ==
    /\ WrapperCalled
    /\ tool.input_model.value = OwnModel
    /\ \E i \in DOMAIN CalledFunction.f.params :
          /\ IsOptionalDescriptor(CalledFunction.f.params[i].annotation)
          /\ CalledFunction.f.params[i].default = Default(NoneVal)
          /\ i > Len(called.args)
          /\ ~Has(called.kwargs, CalledFunction.f.params[i].name)

\* C30: the validators accept null where the builder says nullable: a
\* candidate that gives null to an Optional parameter is valid, and a
\* wrapper call that leaves an Optional parameter at its default of None is
\* not rejected by the validation
C30_NullableAccepted ==
    /\ NullSupplied =>
          IF op = "validate_llm_response"
          THEN Succeeded
          ELSE verdict = Returned(BoolVal(TRUE))
    /\ LeftAtNull => called.outcome # Raised("ValidationError")

====
